---- MODULE Spec2Model ----
(***************************************************************************)
(* DeepDebug streaming workflow of capstoneNewUI.                          *)
(*                                                                         *)
(* Two code paths consume the workflow stream:                             *)
(*   - the context path: ChatInterfaceImpl.sendMessage -> debugService     *)
(*     .sendDebugWorkflow -> DeepDebugContext (processEvent, ...);         *)
(*   - the panel path: DeepDebugPanel.startDebugWorkflow -> chatService    *)
(*     .sendDebugWorkflow -> updateOrAddStep / terminal callbacks.         *)
(* SpecCtx is the state machine of the first, SpecPanel of the second.     *)
(*                                                                         *)
(* Text that the code inspects character by character (event names,        *)
(* titles) is a sequence of one-character strings.  The byte stream is a   *)
(* sequence of symbols: a newline, or the first or second half of the      *)
(* text of one frame.  What a frame says is drawn when JSON.parse reads    *)
(* it: nothing looks at the bytes before.                                  *)
(***************************************************************************)
EXTENDS Integers, Sequences, FiniteSets, TLC

\* ------------------------------------------------------------------ bounds
MaxSessions == 1
MaxFrames == 2
MaxPanelFrames == 3
MaxChunkSyms == 6
MaxClock == 1
\* the frames of a chat reply and the messages sent to the chat endpoint
MaxReplyFrames == 3
MaxReplies == 2
\* the initPyodide calls
MaxCallers == 3
Callers == 1..MaxCallers

\* ------------------------------------------------------- JavaScript values
undefined == "<undefined>"

LowerChars == <<"a","b","c","d","e","f","g","h","i","j","k","l","m",
                "n","o","p","q","r","s","t","u","v","w","x","y","z">>
UpperChars == <<"A","B","C","D","E","F","G","H","I","J","K","L","M",
                "N","O","P","Q","R","S","T","U","V","W","X","Y","Z">>
DigitChars == {"0","1","2","3","4","5","6","7","8","9"}

LowerSet == {LowerChars[i] : i \in 1..26}
UpperSet == {UpperChars[i] : i \in 1..26}
UpperOf == [c \in LowerSet |-> UpperChars[CHOOSE i \in 1..26 : LowerChars[i] = c]]
LowerOf == [c \in UpperSet |-> LowerChars[CHOOSE i \in 1..26 : UpperChars[i] = c]]

IsLower(c) == c \in LowerSet
IsUpper(c) == c \in UpperSet

\* String.prototype.toUpperCase / toLowerCase on one character
toUpperCase(c) == IF IsLower(c) THEN UpperOf[c] ELSE c
toLowerCase(c) == IF IsUpper(c) THEN LowerOf[c] ELSE c

\* the regular-expression class \w
WordChars == LowerSet \cup UpperSet \cup DigitChars \cup {"_"}
IsWordChar(c) == c \in WordChars

\* String.prototype.split(sep) for a one-character separator
RECURSIVE SplitOn(_, _)
SplitOn(s, sep) ==
  IF \A i \in 1..Len(s) : s[i] # sep THEN <<s>>
  ELSE LET i == CHOOSE j \in 1..Len(s) :
                  s[j] = sep /\ \A k \in 1..(j-1) : s[k] # sep
       IN <<SubSeq(s, 1, i-1)>> \o SplitOn(SubSeq(s, i+1, Len(s)), sep)

\* Array.prototype.join(sep)
RECURSIVE JoinWith(_, _)
JoinWith(words, sep) ==
  IF Len(words) = 0 THEN <<>>
  ELSE IF Len(words) = 1 THEN words[1]
  ELSE words[1] \o <<sep>> \o JoinWith(Tail(words), sep)

\* word.charAt(0).toUpperCase() + word.slice(1)
Capitalize(word) ==
  IF Len(word) = 0 THEN <<>>
  ELSE <<toUpperCase(word[1])>> \o SubSeq(word, 2, Len(word))

\* .replace(/_/g, ' ')
ReplaceUnderscore(s) == [i \in 1..Len(s) |-> IF s[i] = "_" THEN " " ELSE s[i]]

\* String.prototype.toLowerCase
LowerCased(s) == [i \in 1..Len(s) |-> toLowerCase(s[i])]

\* DeepDebugContext.formatEventName
formatEventName(event) ==
  LET words == SplitOn(ReplaceUnderscore(event), " ")
  IN JoinWith([i \in 1..Len(words) |-> Capitalize(words[i])], " ")

\* event.replace(/(_\d+)$/, ''): drop a final "_" followed by digits only
StripNumericSuffix(s) ==
  LET cands == {i \in 1..Len(s) :
                  /\ s[i] = "_"
                  /\ i < Len(s)
                  /\ \A k \in (i+1)..Len(s) : s[k] \in DigitChars}
  IN IF cands = {} THEN s
     ELSE SubSeq(s, 1, (CHOOSE i \in cands : \A j \in cands : i <= j) - 1)

\* .replace(/[^\w_]/g, '')
StripNonWord(s) == SelectSeq(s, IsWordChar)

\* DeepDebugContext.normalizeEventName
normalizeEventName(event) ==
  LowerCased(StripNonWord(StripNumericSuffix(event)))


\* ------------------------------------------------------ raw event names
EvAnalyzing1 == <<"a","n","a","l","y","z","i","n","g","_","p","r","o","b","l","e","m","_","1">>
EvAnalyzing2 == <<"a","n","a","l","y","z","i","n","g","_","p","r","o","b","l","e","m","_","2">>
EvStepA == <<"s","t","e","p","_","a">>
EvDone == <<"d","o","n","e">>
EvError == <<"e","r","r","o","r">>
EvStepUpdate == <<"s","t","e","p","_","u","p","d","a","t","e">>
EvStatusUpdate == <<"s","t","a","t","u","s","_","u","p","d","a","t","e">>
\* the four characters of the default step title (U+5206 U+6790 U+6B65 U+9AA4)
DefaultStepTitle == <<"U+5206","U+6790","U+6B65","U+9AA4">>
NoEvent == <<>>
\* the fallback error message of the stream consumer ("unknown error")
UnknownErrorMsg == "<unknown error>"

\* ------------------------------------------------------------ the wire
\* One symbol of the byte stream: a newline, the first half of the text of
\* a frame (it begins with the marker "data: "), or its second half.
NL == "\\n"
DataHead == "data: {"
JsonRest == "}"
FrameText == <<DataHead, JsonRest>>
FrameWire == FrameText \o <<NL, NL>>

\* the text of n frames as the server sends them
RECURSIVE WireOf(_)
WireOf(n) == IF n = 0 THEN <<>> ELSE FrameWire \o WireOf(n - 1)

\* buffer.split('\n\n'): the pieces between separators, the last one being
\* the unterminated remainder
RECURSIVE SplitLines(_)
SplitLines(text) ==
  LET seps == {i \in 1..(Len(text) - 1) : text[i] = NL /\ text[i+1] = NL}
  IN IF seps = {} THEN <<text>>
     ELSE LET i == CHOOSE j \in seps : \A k \in seps : j <= k
          IN <<SubSeq(text, 1, i-1)>> \o SplitLines(SubSeq(text, i+2, Len(text)))

Front(s) == SubSeq(s, 1, Len(s) - 1)
Last(s) == s[Len(s)]

\* String.prototype.trim on wire text (newlines are the only white space)
RECURSIVE Trim(_)
Trim(text) ==
  IF Len(text) = 0 THEN text
  ELSE IF Head(text) = NL THEN Trim(Tail(text))
  ELSE IF Last(text) = NL THEN Trim(Front(text))
  ELSE text


\* ---------------------------------------------- frames of the context path
\* What the server can put into one frame of the {event, content} schema.
\* json = FALSE is a payload that JSON.parse rejects; a missing string field
\* is undefined, a missing event is NoEvent.
NoStepPayload ==
  [present |-> FALSE, id |-> undefined, content |-> undefined,
   status |-> undefined]
NoStatusPayload ==
  [present |-> FALSE, status |-> undefined, progress |-> 0, error |-> undefined]

CtxFrame(ev, c) ==
  [json |-> TRUE, event |-> ev, content |-> c,
   step |-> NoStepPayload, status |-> NoStatusPayload]

FramesCtx ==
  << CtxFrame(EvAnalyzing1, "partial text"),
     CtxFrame(EvAnalyzing2, "more text"),
     CtxFrame(EvStepA, "x"),
     CtxFrame(EvDone, undefined),
     CtxFrame(EvError, "boom"),
     CtxFrame(EvError, ""),
     [CtxFrame(NoEvent, undefined) EXCEPT !.json = FALSE],
     [CtxFrame(EvStepUpdate, undefined) EXCEPT
        !.step = [present |-> TRUE, id |-> "s1", content |-> "y",
                  status |-> "pending"]],
     [CtxFrame(EvStatusUpdate, undefined) EXCEPT
        !.status = [present |-> TRUE, status |-> "running", progress |-> 50,
                    error |-> "slow"]] >>

CtxFrameIds == 1..Len(FramesCtx)

\* line.startsWith('data: '): every frame text begins with the marker, a
\* text that begins in the middle of a frame or with a newline does not
StartsWithData(text) == Len(text) > 0 /\ text[1] = DataHead

\* JSON.parse(text.slice(6)) can succeed only on the whole text of a frame
\* (trailing white space allowed); it throws on a truncated one
IsWholeFrame(text) == StartsWithData(text) /\ Trim(text) = FrameText

\* if (line.startsWith('data: ')) { JSON.parse(line.slice(6)) ... }: the
\* frames the text can turn out to be; 0 when the line is skipped or the
\* text is cut short
ParsedAs(text, frameIds) ==
  IF StartsWithData(text) /\ IsWholeFrame(text) THEN frameIds ELSE {0}

\* x || fallback on strings
OrElse(x, fallback) == IF x = undefined \/ x = "" THEN fallback ELSE x

\* ---------------------------------------------------- DeepDebugContext store
\* step ids: `step_${Date.now()}_${normalizedEvent}` (kind "event"),
\* `step_${Date.now()}` (kind "update"), or a string sent by the server.
\* (variant) the id of an event step is made of the time alone
EventStepId_WithoutKey(t, key) == [kind |-> "event", t |-> t, key |-> <<>>, name |-> ""]

EventStepId(t, key) == [kind |-> "event", t |-> t, key |-> key, name |-> ""]
UpdateStepId(t) == [kind |-> "update", t |-> t, key |-> <<>>, name |-> ""]
ServerStepId(name) == [kind |-> "server", t |-> 0, key |-> <<>>, name |-> name]

EmptyMap == [k \in {} |-> EventStepId(0, <<>>)]

InitialWorkflowStatus ==
  [status |-> "running", progress |-> 0, elapsedTime |-> 0, sourceCount |-> 0,
   error |-> undefined]

\* (variant) the entry is replaced by the given object instead of merged
Spread_DropsOldFields(a, b) == b

\* { ...a, ...b } for records
Spread(a, b) ==
  [k \in DOMAIN a \cup DOMAIN b |-> IF k \in DOMAIN b THEN b[k] ELSE a[k]]

\* prevSteps.map(step => ({ ...step, status: 'completed' }))
MarkAllCompleted(steps) ==
  [i \in 1..Len(steps) |-> [steps[i] EXCEPT !.status = "completed"]]

\* prevSteps.findIndex(s => s.id === id), 0 for -1
FindIndex(steps, id) ==
  IF \E i \in 1..Len(steps) : steps[i].id = id
  THEN CHOOSE i \in 1..Len(steps) :
         steps[i].id = id /\ \A j \in 1..(i-1) : steps[j].id # id
  ELSE 0

\* (variant) the step is appended without looking for its id in the list
updateWorkflowStep_AlwaysAppend(steps, step) == Append(steps, step)

\* DeepDebugContext.updateWorkflowStep (the state updater it queues)
updateWorkflowStep(steps, step) ==
  LET stepIndex == FindIndex(steps, step.id)
  IN IF stepIndex > 0
     THEN [steps EXCEPT ![stepIndex] = Spread(steps[stepIndex], step)]
     ELSE Append(steps, step)

\* DeepDebugContext.updateWorkflowStatus (the state updater it queues)
updateWorkflowStatus(prevStatus, status) == Spread(prevStatus, status)

\* (variant) the registry is read from state that the running closure saw
\* when it was created, so a key registered since is not found
IsMapped_StaleRegistry(map, key) == FALSE

\* eventStepMapRef.current[normalizedEvent], as a truth value
IsMapped(map, key) == key \in DOMAIN map

\* eventStepMapRef.current[normalizedEvent] = newStepId
MapPut(map, key, id) ==
  [k \in DOMAIN map \cup {key} |-> IF k = key THEN id ELSE map[k]]

\* (variant) a step that exists keeps the content it was created with
processEvent_KeepsContent(st, closureLen, event, content, t) ==
  IF event = EvDone THEN
    [st EXCEPT !.steps = MarkAllCompleted(st.steps),
               !.status = updateWorkflowStatus(st.status,
                            [status |-> "completed", progress |-> 100])]
  ELSE IF event = EvError THEN
    [st EXCEPT !.status = updateWorkflowStatus(st.status,
                 [status |-> "error", progress |-> 100, error |-> content])]
  ELSE
    LET normalizedEvent == normalizeEventName(event)
        title == formatEventName(event)
        closed == IF closureLen > 0 /\ ~IsMapped(st.map, normalizedEvent)
                  THEN MarkAllCompleted(st.steps) ELSE st.steps
        stepId == IF IsMapped(st.map, normalizedEvent)
                  THEN st.map[normalizedEvent]
                  ELSE EventStepId(t, normalizedEvent)
        old == {i \in 1..Len(st.steps) : st.steps[i].id = stepId}
        step == [id |-> stepId, title |-> title,
                 content |-> IF old = {} THEN content
                             ELSE st.steps[CHOOSE i \in old : TRUE].content,
                 status |-> "in_progress", timestamp |-> t]
    IN [st EXCEPT !.steps = updateWorkflowStep(closed, step),
                  !.map = IF IsMapped(st.map, normalizedEvent) THEN st.map
                          ELSE MapPut(st.map, normalizedEvent, stepId)]

\* DeepDebugContext.processEvent.  st is the store (steps, status, map);
\* closureLen is workflowSteps.length as seen by the closure that runs.
processEvent(st, closureLen, event, content, t) ==
  IF event = EvDone THEN
    [st EXCEPT !.steps = MarkAllCompleted(st.steps),
               !.status = updateWorkflowStatus(st.status,
                            [status |-> "completed", progress |-> 100])]
  ELSE IF event = EvError THEN
    [st EXCEPT !.status = updateWorkflowStatus(st.status,
                 [status |-> "error", progress |-> 100, error |-> content])]
  ELSE
    LET normalizedEvent == normalizeEventName(event)
        title == formatEventName(event)
        closed == IF closureLen > 0 /\ ~IsMapped(st.map, normalizedEvent)
                  THEN MarkAllCompleted(st.steps) ELSE st.steps
        stepId == IF IsMapped(st.map, normalizedEvent)
                  THEN st.map[normalizedEvent]
                  ELSE EventStepId(t, normalizedEvent)
        step == [id |-> stepId, title |-> title, content |-> content,
                 status |-> "in_progress", timestamp |-> t]
    IN [st EXCEPT !.steps = updateWorkflowStep(closed, step),
                  !.map = IF IsMapped(st.map, normalizedEvent) THEN st.map
                          ELSE MapPut(st.map, normalizedEvent, stepId)]


\* ------------------------------------------- debugService.sendDebugWorkflow
RequestFailedMsg == "<request failed>"
NoReaderMsg == "<cannot read response stream>"
NetworkErrorMsg == "<network error>"

\* (variant) the error callback reports a fixed text
ctxOnError_FixedText(st, error) ==
  [st EXCEPT !.status = updateWorkflowStatus(st.status,
     [status |-> "error", progress |-> 100, error |-> UnknownErrorMsg])]

\* the callbacks ChatInterfaceImpl.sendMessage hands to sendDebugWorkflow
ctxOnError(st, error) ==
  [st EXCEPT !.status = updateWorkflowStatus(st.status,
     [status |-> "error", progress |-> 100, error |-> error])]

ctxOnFinish(st) ==
  [st EXCEPT !.status = updateWorkflowStatus(st.status,
     [status |-> "completed", progress |-> 100])]

ctxOnStepUpdate(st, step) ==
  [st EXCEPT !.steps = updateWorkflowStep(st.steps, step)]

ctxOnStatusUpdate(st, status) ==
  [st EXCEPT !.status = updateWorkflowStatus(st.status, status)]

ctxOnEvent(st, closureLen, event, content, t) ==
  processEvent(st, closureLen, event, content, t)

\* the step object built from a step_update frame
StepOfFrame(data, t) ==
  [id |-> IF OrElse(data.step.id, "") = "" THEN UpdateStepId(t)
          ELSE ServerStepId(data.step.id),
   title |-> DefaultStepTitle,
   content |-> OrElse(data.step.content, ""),
   status |-> OrElse(data.step.status, "completed"),
   timestamp |-> t]

\* the status object built from a status_update frame
StatusOfFrame(data) ==
  [status |-> OrElse(data.status.status, "running"),
   progress |-> data.status.progress,
   elapsedTime |-> 0,
   sourceCount |-> 0,
   error |-> data.status.error]

IsTerminalCtx(data) == data.event = EvDone \/ data.event = EvError

\* the callbacks one parsed frame triggers, in the order of the code
ApplyFrameCtx(st, closureLen, data, t) ==
  LET st1 == IF data.event # NoEvent
             THEN ctxOnEvent(st, closureLen, data.event, OrElse(data.content, ""), t)
             ELSE st
  IN IF data.event = EvDone THEN ctxOnFinish(st1)
     ELSE IF data.event = EvError
       THEN ctxOnError(st1, OrElse(data.content, UnknownErrorMsg))
     ELSE IF data.event = EvStepUpdate /\ data.step.present
       THEN ctxOnStepUpdate(st1, StepOfFrame(data, t))
     ELSE IF data.event = EvStatusUpdate /\ data.status.present
       THEN ctxOnStatusUpdate(st1, StatusOfFrame(data))
     ELSE st1

\* ------------------------------------------------------------ the server
MaxChunkFrames == (MaxChunkSyms + 3) \div 4

Min(a, b) == IF a < b THEN a ELSE b

\* what is left to send of the frame whose beginning is in the buffer
RestOfFrame(buffer) ==
  IF Len(buffer) = 0 THEN <<>>
  ELSE SubSeq(FrameWire, Len(buffer) + 1, Len(FrameWire))

\* the chunks reader.read() can deliver next: the server sends whole
\* frames, each followed by a blank line; the transport cuts the byte
\* stream anywhere.  budget is the number of frames the server may begin.
Chunks(buffer, budget) ==
  LET w == RestOfFrame(buffer) \o WireOf(Min(budget, MaxChunkFrames))
  IN {SubSeq(w, 1, k) : k \in 1..Min(Len(w), MaxChunkSyms)}

FramesBegun(chunk) == Cardinality({i \in 1..Len(chunk) : chunk[i] = DataHead})


\* ================================================ pure parts of the panel path
\* What the server can put into one frame of the {event_name, status,
\* content} schema (a missing field is undefined).
PanelFrame(name, st, c) ==
  [json |-> TRUE, error |-> undefined, event_name |-> name, status |-> st,
   content |-> c]

FullCodeMarker == "Full Code"

FramesPanel ==
  << PanelFrame("step_a", "step_started", undefined),
     PanelFrame("step_a", "step_progress", "x"),
     PanelFrame("step_a", "step_completed", "y"),
     PanelFrame("step_b", undefined, "y"),
     PanelFrame("step_a", "step_error", "bad"),
     PanelFrame(FullCodeMarker, "step_completed", "code"),
     PanelFrame("full code", "step_completed", "code"),
     PanelFrame("workflow", "done", undefined),
     [PanelFrame(undefined, undefined, undefined) EXCEPT !.error = "boom"],
     [PanelFrame("step_a", undefined, undefined) EXCEPT !.error = "boom"],
     PanelFrame(undefined, undefined, undefined),
     [PanelFrame(undefined, undefined, undefined) EXCEPT !.json = FALSE] >>

PanelFrameIds == 1..Len(FramesPanel)

\* truthiness of a string field
Truthy(x) == x # undefined /\ x # ""

\* DeepDebugPanel: a Step, and null for "no full-code step"
PanelStep(id, title, content, status) ==
  [id |-> id, title |-> title, content |-> content, status |-> status]
null == PanelStep(undefined, undefined, undefined, undefined)


\* DeepDebugPanel.updateOrAddStep; p is the panel state (steps, fullCodeStep)
updateOrAddStep(p, stepId, content, status) ==
  IF stepId = FullCodeMarker
  THEN [p EXCEPT !.fullCodeStep =
          IF p.fullCodeStep = null
          THEN PanelStep(stepId, stepId, content, status)
          ELSE [p.fullCodeStep EXCEPT !.content = content, !.status = status]]
  ELSE LET existingStepIndex == FindIndex(p.steps, stepId)
       IN [p EXCEPT !.steps =
             IF existingStepIndex > 0
             THEN [i \in 1..Len(p.steps) |->
                     IF i = existingStepIndex
                     THEN [p.steps[i] EXCEPT !.content = content, !.status = status]
                     ELSE p.steps[i]]
             ELSE Append(p.steps, PanelStep(stepId, stepId, content, status))]

\* the callbacks DeepDebugPanel.startDebugWorkflow hands to sendDebugWorkflow
onStepStarted(p, event) == updateOrAddStep(p, event, "", "in_progress")
onStepProgress(p, event, content) == updateOrAddStep(p, event, content, "in_progress")
onStepCompleted(p, event, content) == updateOrAddStep(p, event, content, "completed")
onStepError(p, event, error) == updateOrAddStep(p, event, error, "error")

\* (variant) the completion callback leaves the interval running
onComplete_KeepsTimer(p) ==
  [p EXCEPT !.status = [status |-> "completed", error |-> undefined],
            !.timeouts = Append(@, [status |-> "completed", error |-> undefined])]

\* setWorkflowStatus({ status: 'completed' }), clearInterval, and the capture
\* it schedules
onComplete(p) ==
  [p EXCEPT !.status = [status |-> "completed", error |-> undefined],
            !.timerRef = FALSE,
            !.timeouts = Append(@, [status |-> "completed", error |-> undefined])]

onError(p, error) ==
  [p EXCEPT !.status = [status |-> "error", error |-> error],
            !.timerRef = FALSE,
            !.timeouts = Append(@, [status |-> "error", error |-> error])]

\* chatService.sendDebugWorkflow: what one parsed frame does.  "stop" says
\* that the consumer cancelled the reader and left the for loop.
ApplyFramePanel(p, data) ==
  IF Truthy(data.error) THEN
    [p |-> IF Truthy(data.event_name)
           THEN onStepError(p, data.event_name, data.error)
           ELSE onError(p, data.error),
     stop |-> FALSE]
  ELSE IF ~Truthy(data.event_name) THEN [p |-> p, stop |-> FALSE]
  ELSE IF data.status = "step_started" THEN
    [p |-> onStepStarted(p, data.event_name), stop |-> FALSE]
  ELSE IF data.status = "step_progress" THEN
    [p |-> onStepProgress(p, data.event_name, OrElse(data.content, "")), stop |-> FALSE]
  ELSE IF data.status \in {"step_completed", "step_result"} THEN
    [p |-> onStepCompleted(p, data.event_name, OrElse(data.content, "")), stop |-> FALSE]
  ELSE IF data.status = "step_error" THEN
    [p |-> onStepError(p, data.event_name, OrElse(data.content, "")), stop |-> FALSE]
  ELSE IF data.status \in {"done", "debug_completed"} THEN
    [p |-> onComplete(p), stop |-> TRUE]
  ELSE
    [p |-> IF Truthy(data.content)
           THEN onStepProgress(p, data.event_name, data.content) ELSE p,
     stop |-> FALSE]

\* n.toString().padStart(2, '0') for n < 100
DigitSeq == <<"0","1","2","3","4","5","6","7","8","9">>
Pad2(n) == <<DigitSeq[(n \div 10) + 1], DigitSeq[(n % 10) + 1]>>

\* the text the interval callback writes: `${minutes}:${seconds}`
ElapsedString(elapsedSeconds) ==
  Pad2(elapsedSeconds \div 60) \o <<":">> \o Pad2(elapsedSeconds % 60)

\* (variant) the capture forgets the full-code step
Snapshot_WithoutFullCode(steps, fullCode, elapsed, status, error, query) ==
  [steps |-> steps, fullCodeStep |-> null, elapsedTime |-> elapsed,
   status |-> status, error |-> error, query |-> query]

\* the Snapshot the capture timeout puts into the completion event
Snapshot(steps, fullCode, elapsed, status, error, query) ==
  [steps |-> steps, fullCodeStep |-> fullCode, elapsedTime |-> elapsed,
   status |-> status, error |-> error, query |-> query]

\* ====================================================== the context path
VARIABLES
  workflowSteps,     \* DeepDebugContext state: the ordered Step list
  workflowStatus,    \* DeepDebugContext state: the Run Status
  eventStepMapRef,   \* DeepDebugContext ref: canonical key -> step id
  now,               \* Date.now()
  consumers,         \* one sendDebugWorkflow call per submission
  nSessions,         \* submissions so far
  nFrames,           \* frames the server has begun to send so far
  panel,             \* DeepDebugPanel: its state, refs and pending timeouts
  panelConsumer,     \* the chatService.sendDebugWorkflow call of the panel
  completion,        \* what the panel showed when a terminal callback ran
  chat,              \* ChatInterface: active session and the saved results
  replay,            \* a DeepDebugPanel mounted later from the saved results
  detached,          \* readers of the streams whose panel was torn down
  wire,              \* the byte stream of a run whose frames are fixed
  reply,             \* ChatInterface: the sendChatMessage call of a message
  pyodideService     \* the PyodideService instance and its initPyodide calls

ctxVars == <<workflowSteps, workflowStatus, eventStepMapRef, consumers,
             nSessions>>
panelVars == <<panel, panelConsumer, completion, chat, replay, detached>>
vars == <<workflowSteps, workflowStatus, eventStepMapRef, now, consumers,
          nSessions, nFrames, panel, panelConsumer, completion, chat, replay,
          detached, wire, reply, pyodideService>>
serviceVars == <<reply, pyodideService>>

\* the session the chat page started, and the query it was started with
SessionId == "deepdebug-1"
Query == "why does it crash"

NoResults == Snapshot(<<>>, null, <<>>, undefined, undefined, undefined)
NoPanel == [mounted |-> FALSE]
\* no stream was fixed: what a frame says is drawn when it is parsed
NoWire == [frames |-> <<>>, length |-> 0, sent |-> 0]

\* no message was sent to the chat endpoint: botResponseStatus is
\* 'complete'. pc: "idle" | "fetch" | "read" | "lines" | "closed"; lines
\* are the frames of the for loop; cancelled: reader.cancel() was called;
\* nMessage, nFinish, nError count the callbacks of the call and
\* messageAfterTerminal tells whether onMessage ran after onFinish or onError
NoReply ==
  [pc |-> "idle", lines |-> <<>>, cancelled |-> FALSE, frames |-> 0,
   botResponseStatus |-> "complete", nMessage |-> 0, nFinish |-> 0,
   nError |-> 0, messageAfterTerminal |-> FALSE, calls |-> 0]

\* pyodideService right after `new PyodideService()`: pyodide and
\* loadingPromise are null (0), window.loadPyodide is not defined, no script
\* element was appended and no initPyodide call was made. A promise of
\* window.loadPyodide is known by its number in promises and resolves with
\* the instance of the same number.
NewPyodideService ==
  [pyodide |-> 0, isLoading |-> FALSE, loadingPromise |-> 0,
   loadPyodide |-> FALSE, scripts |-> 0, promises |-> <<>>,
   calls |-> [c \in Callers |-> [pc |-> "idle", promise |-> 0, result |-> 0]]]

\* pc: "unstarted" | "fetch" | "read" | "lines" | "closed"
IdlePanelConsumer ==
  [pc |-> "unstarted", buffer |-> <<>>, lines |-> <<>>, stopped |-> FALSE]

\* a DeepDebugPanel right after it is mounted without savedResults.
\* startTime -1 is null; closureElapsed is elapsedTimeString as seen by
\* the callbacks of the running workflow; mounted turns FALSE when the
\* component is unmounted.
FreshPanel ==
  [mounted |-> TRUE,
   status |-> [status |-> "idle", error |-> undefined],
   elapsedTimeString |-> ElapsedString(0),
   startTime |-> -1,
   steps |-> <<>>,
   fullCodeStep |-> null,
   timerRef |-> FALSE,
   resultsLoadedRef |-> FALSE,
   timeouts |-> <<>>,
   closureElapsed |-> ElapsedString(0)]

\* (variant) the ref that marks a panel as loaded from results stays unset
PanelFromSnapshot_NotMarkedLoaded(savedResults) ==
  [FreshPanel EXCEPT
     !.status = [status |-> savedResults.status, error |-> savedResults.error],
     !.elapsedTimeString = IF savedResults.elapsedTime = <<>> THEN ElapsedString(0)
                           ELSE savedResults.elapsedTime,
     !.steps = savedResults.steps,
     !.fullCodeStep = savedResults.fullCodeStep]

\* DeepDebugPanel's initial state for given savedResults
PanelFromSnapshot(savedResults) ==
  [FreshPanel EXCEPT
     !.status = [status |-> savedResults.status, error |-> savedResults.error],
     !.elapsedTimeString = IF savedResults.elapsedTime = <<>> THEN ElapsedString(0)
                           ELSE savedResults.elapsedTime,
     !.steps = savedResults.steps,
     !.fullCodeStep = savedResults.fullCodeStep,
     !.resultsLoadedRef = TRUE]

\* what the panel shows: the Step list, the full-code step, the Run Status
View(p) == [steps |-> p.steps, fullCodeStep |-> p.fullCodeStep, status |-> p.status]

\* the chat page has put a DeepDebug message into the history and mounted
\* its panel; sendMessage is awaiting saveChatHistory (saving), the URL has
\* no chat id yet (chatId), hasMessage tells whether chatHistory holds the
\* DeepDebug message of the active session, whose results are
\* deepDebugResults; earlier are the DeepDebug messages before it, and
\* resultsSaveRequested tells whether updateDeepDebugResults has called
\* saveChatHistory since the message was sent
PanelAtMount ==
  /\ panel = FreshPanel
  /\ panelConsumer = IdlePanelConsumer
  /\ completion = View(FreshPanel)
  /\ chat = [activeDeepDebugId |-> SessionId, isDeepDebugging |-> TRUE,
             deepDebugResults |-> NoResults, saving |-> TRUE,
             chatId |-> FALSE, isLoading |-> FALSE, hasMessage |-> TRUE,
             earlier |-> <<>>, resultsSaveRequested |-> FALSE]
  /\ replay = NoPanel
  /\ detached = <<>>

\* the submissions followed, and one more that may be made on top of them
Sessions == 1..(MaxSessions + 1)

\* pc: "unused" | "fetch" (awaiting fetch) | "read" (awaiting reader.read())
\*   | "lines" (inside for (const line of lines)) | "drain" (the loop is left,
\*   the remaining buffer is still to be looked at) | "closed"
\* stopped: a terminal frame made the consumer cancel the reader
\* closureLen: workflowSteps.length in the render whose processEvent was
\*   handed to sendDebugWorkflow
IdleConsumer ==
  [pc |-> "unused", buffer |-> <<>>, lines |-> <<>>, closureLen |-> 0,
   stopped |-> FALSE]

\* the call has returned: its locals are gone
ClosedConsumer(c) == [IdleConsumer EXCEPT !.pc = "closed", !.stopped = c.stopped]

Store == [steps |-> workflowSteps, status |-> workflowStatus,
          map |-> eventStepMapRef]

SetStore(st) ==
  /\ workflowSteps' = st.steps
  /\ workflowStatus' = st.status
  /\ eventStepMapRef' = st.map

\* a callback chain runs to completion: nothing else is scheduled while a
\* consumer is between two awaits
CtxBusy == \E s \in Sessions : consumers[s].pc \in {"lines", "drain"}

InitCtx ==
  /\ workflowSteps = <<>>
  /\ workflowStatus = InitialWorkflowStatus
  /\ eventStepMapRef = EmptyMap
  /\ now = 0
  /\ consumers = [s \in Sessions |-> IdleConsumer]
  /\ nSessions = 0
  /\ nFrames = 0
  /\ wire = NoWire
  /\ reply = NoReply
  /\ pyodideService = NewPyodideService
  /\ PanelAtMount

\* time passes
CtxTick ==
  /\ ~CtxBusy
  /\ now < MaxClock
  /\ now' = now + 1
  /\ UNCHANGED <<workflowSteps, workflowStatus, eventStepMapRef, consumers,
                 nSessions, nFrames>>
  /\ UNCHANGED <<panelVars, wire, serviceVars>>

\* (variant) the registry of the earlier session is kept
resetWorkflow_KeepsRegistry(st) ==
  [steps |-> <<>>, map |-> st.map, status |-> InitialWorkflowStatus]

\* DeepDebugContext.resetWorkflow
resetWorkflow(st) ==
  [steps |-> <<>>, map |-> EmptyMap, status |-> InitialWorkflowStatus]

\* ChatInterfaceImpl.handleSubmit and sendMessage with DeepDebug enabled, up
\* to the fetch. isLoading is derived from botResponseStatus, which a
\* DeepDebug submission never sets, so the guard of handleSubmit is open
\* whatever the earlier submissions are doing.
sendMessageUpTo(limit) ==
  /\ ~CtxBusy
  /\ nSessions < limit
  /\ nSessions' = nSessions + 1
  /\ SetStore(resetWorkflow(Store))
  /\ consumers' = [consumers EXCEPT ![nSessions + 1] =
       [IdleConsumer EXCEPT !.pc = "fetch",
                            !.closureLen = Len(workflowSteps)]]
  /\ UNCHANGED <<now, nFrames>>
  /\ UNCHANGED <<panelVars, wire, serviceVars>>

\* the fetch settles: response.ok, !response.ok, no body reader, or a throw
FetchSettles(s) ==
  /\ ~CtxBusy
  /\ consumers[s].pc = "fetch"
  /\ \E outcome \in {"ok", "not_ok", "no_reader", "throws"} :
       LET running == ctxOnStatusUpdate(Store,
                        [status |-> "running", progress |-> 0,
                         elapsedTime |-> 0, sourceCount |-> 0])
       IN IF outcome = "ok"
          THEN /\ SetStore(running)
               /\ consumers' = [consumers EXCEPT ![s].pc = "read"]
          ELSE /\ SetStore(IF outcome = "not_ok"
                              THEN ctxOnError(Store, RequestFailedMsg)
                            ELSE IF outcome = "no_reader"
                              THEN ctxOnError(running, NoReaderMsg)
                            ELSE ctxOnError(Store, NetworkErrorMsg))
               /\ consumers' = [consumers EXCEPT ![s] = ClosedConsumer(@)]
  /\ UNCHANGED <<now, nSessions, nFrames>>
  /\ UNCHANGED <<panelVars, wire, serviceVars>>

\* reader.read() delivers a chunk: buffer += chunk, split, keep the rest;
\* limit is the number of frames the server sends at most
ReadChunkUpTo(s, limit) ==
  /\ ~CtxBusy
  /\ consumers[s].pc = "read"
  /\ \E chunk \in Chunks(consumers[s].buffer, limit - nFrames) :
       LET parts == SplitLines(consumers[s].buffer \o chunk)
       IN /\ consumers' = [consumers EXCEPT
                 ![s].lines = Front(parts),
                 ![s].buffer = Last(parts),
                 ![s].pc = IF Len(parts) > 1 THEN "lines" ELSE "read"]
          /\ nFrames' = nFrames + FramesBegun(chunk)
  /\ UNCHANGED <<workflowSteps, workflowStatus, eventStepMapRef, now, nSessions>>
  /\ UNCHANGED <<panelVars, wire, serviceVars>>

\* (variant) a JSON.parse that throws ends the run with an error
DispatchLineAs_AbortOnParseError(s, f) ==
  /\ consumers[s].pc = "lines"
  /\ f \in ParsedAs(Head(consumers[s].lines), CtxFrameIds)
  /\ LET rest == Tail(consumers[s].lines)
         data == FramesCtx[f]
         parsed == f # 0 /\ data.json
     IN IF ~parsed \/ IsTerminalCtx(data)
        THEN /\ SetStore(IF parsed
                         THEN ApplyFrameCtx(Store, consumers[s].closureLen, data, now)
                         ELSE ctxOnError(Store, NetworkErrorMsg))
             /\ consumers' = [consumers EXCEPT ![s].lines = <<>>,
                                               ![s].stopped = TRUE,
                                               ![s].pc = "drain"]
        ELSE /\ SetStore(ApplyFrameCtx(Store, consumers[s].closureLen, data, now))
             /\ consumers' = [consumers EXCEPT
                  ![s].lines = rest,
                  ![s].pc = IF Len(rest) > 0 THEN "lines" ELSE "read"]
  /\ UNCHANGED <<now, nSessions, nFrames>>
  /\ UNCHANGED <<panelVars, wire, serviceVars>>

\* one iteration of for (const line of lines), the line being frame f
DispatchLineAs(s, f) ==
  /\ consumers[s].pc = "lines"
  /\ f \in ParsedAs(Head(consumers[s].lines), CtxFrameIds)
  /\ LET rest == Tail(consumers[s].lines)
         data == FramesCtx[f]
         parsed == f # 0 /\ data.json
     IN IF parsed /\ IsTerminalCtx(data)
        THEN \* callbacks, reader.cancel(), break; the next read reports done
             /\ SetStore(ApplyFrameCtx(Store, consumers[s].closureLen, data, now))
             /\ consumers' = [consumers EXCEPT ![s].lines = <<>>,
                                               ![s].stopped = TRUE,
                                               ![s].pc = "drain"]
        ELSE \* a JSON.parse that throws is caught and logged: next line
             /\ SetStore(IF parsed
                         THEN ApplyFrameCtx(Store, consumers[s].closureLen, data, now)
                         ELSE Store)
             /\ consumers' = [consumers EXCEPT
                  ![s].lines = rest,
                  ![s].pc = IF Len(rest) > 0 THEN "lines" ELSE "read"]
  /\ UNCHANGED <<now, nSessions, nFrames>>
  /\ UNCHANGED <<panelVars, wire, serviceVars>>

DispatchLine(s) == \E f \in CtxFrameIds \cup {0} : DispatchLineAs(s, f)

\* reader.read() reports done: the server closed the stream
ReadDone(s) ==
  /\ ~CtxBusy
  /\ consumers[s].pc = "read"
  /\ consumers' = [consumers EXCEPT ![s].pc = "drain"]
  /\ UNCHANGED <<workflowSteps, workflowStatus, eventStepMapRef, now,
                 nSessions, nFrames>>
  /\ UNCHANGED <<panelVars, wire, serviceVars>>

\* reader.read() rejects: catch (streamError)
ReadThrows(s) ==
  /\ ~CtxBusy
  /\ consumers[s].pc = "read"
  /\ SetStore(ctxOnError(Store, NetworkErrorMsg))
  /\ consumers' = [consumers EXCEPT ![s].pc = "drain"]
  /\ UNCHANGED <<now, nSessions, nFrames>>
  /\ UNCHANGED <<panelVars, wire, serviceVars>>

\* after the loop: the unterminated rest of the buffer, being frame f
DrainBufferAs(s, f) ==
  /\ consumers[s].pc = "drain"
  /\ f \in IF Len(Trim(consumers[s].buffer)) > 0
            THEN ParsedAs(consumers[s].buffer, CtxFrameIds) ELSE {0}
  /\ LET data == FramesCtx[f]
         parsed == f # 0 /\ data.json
     IN SetStore(IF parsed
                 THEN ApplyFrameCtx(Store, consumers[s].closureLen, data, now)
                 ELSE Store)
  /\ consumers' = [consumers EXCEPT ![s] = ClosedConsumer(@)]
  /\ UNCHANGED <<now, nSessions, nFrames>>
  /\ UNCHANGED <<panelVars, wire, serviceVars>>

DrainBuffer(s) == \E f \in CtxFrameIds \cup {0} : DrainBufferAs(s, f)

sendMessage == sendMessageUpTo(MaxSessions)
ReadChunk(s) == ReadChunkUpTo(s, MaxFrames)

NextCtx ==
  \/ CtxTick
  \/ sendMessage
  \/ \E s \in Sessions : FetchSettles(s)
  \/ \E s \in Sessions : ReadChunk(s)
  \/ \E s \in Sessions : DispatchLine(s)
  \/ \E s \in Sessions : ReadDone(s)
  \/ \E s \in Sessions : ReadThrows(s)
  \/ \E s \in Sessions : DrainBuffer(s)

SpecCtx == InitCtx /\ [][NextCtx]_vars

\* the context path with one more submission than SpecCtx follows
sendMessageAgain == sendMessageUpTo(MaxSessions + 1)

NextResubmit ==
  \/ CtxTick
  \/ sendMessageAgain
  \/ \E s \in Sessions : FetchSettles(s)
  \/ \E s \in Sessions : ReadChunk(s)
  \/ \E s \in Sessions : DispatchLine(s)
  \/ \E s \in Sessions : ReadDone(s)
  \/ \E s \in Sessions : ReadThrows(s)
  \/ \E s \in Sessions : DrainBuffer(s)

SpecResubmit == InitCtx /\ [][NextResubmit]_vars

\* the context path over consecutive sessions: the user submits again once
\* the earlier run has returned, and the server sends one frame more
NoRunInFlight == \A s \in Sessions : consumers[s].pc \in {"unused", "closed"}
sendMessageNext == NoRunInFlight /\ sendMessageUpTo(MaxSessions + 1)
ReadLongerChunk(s) == ReadChunkUpTo(s, MaxFrames + 1)

NextSessions ==
  \/ CtxTick
  \/ sendMessageNext
  \/ \E s \in Sessions : FetchSettles(s)
  \/ \E s \in Sessions : ReadLongerChunk(s)
  \/ \E s \in Sessions : DispatchLine(s)
  \/ \E s \in Sessions : ReadDone(s)
  \/ \E s \in Sessions : ReadThrows(s)
  \/ \E s \in Sessions : DrainBuffer(s)

SpecSessions == InitCtx /\ [][NextSessions]_vars

\* ======================================================== the panel path
PanelBusy == panelConsumer.pc = "lines"

\* a terminal callback ran in this step: remember what the panel showed
Observe(p) ==
  completion' = IF Len(p.timeouts) > Len(panel.timeouts) THEN View(p)
                ELSE completion

InitPanel ==
  /\ workflowSteps = <<>>
  /\ workflowStatus = InitialWorkflowStatus
  /\ eventStepMapRef = EmptyMap
  /\ now = 0
  /\ consumers = [s \in Sessions |-> IdleConsumer]
  /\ nSessions = 0
  /\ nFrames = 0
  /\ wire = NoWire
  /\ reply = NoReply
  /\ pyodideService = NewPyodideService
  /\ PanelAtMount

\* time passes (one second)
PanelTick ==
  /\ ~PanelBusy
  /\ now < MaxClock
  /\ now' = now + 1
  /\ UNCHANGED <<nFrames, panelVars, ctxVars, wire, serviceVars>>

\* DeepDebugPanel.startDebugWorkflow, up to the fetch
startDebugWorkflow(p) ==
  [p EXCEPT !.status = [status |-> "running", error |-> undefined],
            !.steps = <<>>,
            !.fullCodeStep = null,
            !.startTime = now,
            !.closureElapsed = p.elapsedTimeString]

\* the start effect gets past its returns: no saved results, a query, idle
StartEffectRuns(p) ==
  ~p.resultsLoadedRef /\ Truthy(Query) /\ p.status.status = "idle"

\* the timer effect gets past its returns: no saved results, running, started
TimerEffectRuns(p) ==
  ~p.resultsLoadedRef /\ p.status.status = "running" /\ p.startTime >= 0

\* a panel mounted with savedResults, once its effects have run; requested
\* tells whether the start effect called sendDebugWorkflow
MountedFromSnapshot(savedResults) ==
  LET p0 == PanelFromSnapshot(savedResults)
      p1 == IF StartEffectRuns(p0) THEN startDebugWorkflow(p0) ELSE p0
      p2 == IF TimerEffectRuns(p1) THEN [p1 EXCEPT !.timerRef = TRUE] ELSE p1
  IN [mounted |-> TRUE, savedResults |-> savedResults, p |-> p2,
      requested |-> StartEffectRuns(p0)]

\* what the saved message may carry as results: the Snapshot the chat page
\* stored, or one with another Run Status of the type DeepDebugResults
SavedVariants(results) ==
  {results} \cup {[results EXCEPT !.status = st] : st \in {"idle", "running"}}

\* the effect that starts the workflow of a panel without saved results
StartEffect ==
  /\ ~PanelBusy
  /\ panel.mounted
  /\ StartEffectRuns(panel)
  /\ panelConsumer.pc = "unstarted"
  /\ panel' = startDebugWorkflow(panel)
  /\ panelConsumer' = [panelConsumer EXCEPT !.pc = "fetch"]
  /\ UNCHANGED <<now, nFrames, completion, chat, replay, detached, ctxVars, wire, serviceVars>>

\* the effect that starts the interval while the run is running
TimerEffect ==
  /\ ~PanelBusy
  /\ panel.mounted
  /\ TimerEffectRuns(panel)
  /\ ~panel.timerRef
  /\ panel' = [panel EXCEPT !.timerRef = TRUE]
  /\ UNCHANGED <<now, nFrames, panelConsumer, completion, chat, replay, detached, ctxVars, wire, serviceVars>>

\* the interval callback
TimerFires ==
  /\ ~PanelBusy
  /\ panel.timerRef
  /\ panel' = [panel EXCEPT
       !.elapsedTimeString = ElapsedString(now - panel.startTime)]
  /\ panel' # panel
  /\ UNCHANGED <<now, nFrames, panelConsumer, completion, chat, replay, detached, ctxVars, wire, serviceVars>>

\* the fetch settles: ok with a reader, ok without one, !response.ok, throw
PanelFetchSettles ==
  /\ ~PanelBusy
  /\ panelConsumer.pc = "fetch"
  /\ \E outcome \in {"ok", "no_reader", "not_ok", "throws"} :
       LET p == IF outcome = "not_ok" THEN onError(panel, RequestFailedMsg)
                ELSE IF outcome = "throws" THEN onError(panel, NetworkErrorMsg)
                ELSE panel
       IN /\ panel' = p
          /\ Observe(p)
          /\ panelConsumer' = [panelConsumer EXCEPT
               !.pc = IF outcome = "ok" THEN "read" ELSE "closed"]
  /\ UNCHANGED <<now, nFrames, chat, replay, detached, ctxVars, wire, serviceVars>>

\* reader.read() delivers a chunk
PanelReadChunk ==
  /\ ~PanelBusy
  /\ panelConsumer.pc = "read"
  /\ \E chunk \in Chunks(panelConsumer.buffer, MaxPanelFrames - nFrames) :
       LET parts == SplitLines(panelConsumer.buffer \o chunk)
       IN /\ panelConsumer' = [panelConsumer EXCEPT
                 !.lines = Front(parts),
                 !.buffer = Last(parts),
                 !.pc = IF Len(parts) > 1 THEN "lines" ELSE "read"]
          /\ nFrames' = nFrames + FramesBegun(chunk)
  /\ UNCHANGED <<now, panel, completion, chat, replay, detached, ctxVars, wire, serviceVars>>

\* one iteration of for (const line of lines)
PanelDispatchLine ==
  /\ panelConsumer.pc = "lines"
  /\ \E f \in ParsedAs(Head(panelConsumer.lines), PanelFrameIds) :
     LET rest == Tail(panelConsumer.lines)
         data == FramesPanel[f]
         parsed == f # 0 /\ data.json
         r == IF parsed THEN ApplyFramePanel(panel, data)
              ELSE [p |-> panel, stop |-> FALSE]
     IN /\ panel' = r.p
        /\ Observe(r.p)
        /\ panelConsumer' =
             IF r.stop
             THEN \* reader.cancel(), break: the next read reports done
                  [panelConsumer EXCEPT !.lines = <<>>, !.buffer = <<>>,
                                        !.stopped = TRUE, !.pc = "closed"]
             ELSE [panelConsumer EXCEPT
                     !.lines = rest,
                     !.pc = IF Len(rest) > 0 THEN "lines" ELSE "read"]
  /\ UNCHANGED <<now, nFrames, chat, replay, detached, ctxVars, wire, serviceVars>>

\* reader.read() reports done: the loop is left, nothing else happens
PanelReadDone ==
  /\ ~PanelBusy
  /\ panelConsumer.pc = "read"
  /\ panelConsumer' = [panelConsumer EXCEPT !.pc = "closed", !.buffer = <<>>]
  /\ UNCHANGED <<now, nFrames, panel, completion, chat, replay, detached, ctxVars, wire, serviceVars>>

\* reader.read() rejects: the outer catch reports error.message
PanelReadThrows ==
  /\ ~PanelBusy
  /\ panelConsumer.pc = "read"
  /\ panel' = onError(panel, NetworkErrorMsg)
  /\ Observe(onError(panel, NetworkErrorMsg))
  /\ panelConsumer' = [panelConsumer EXCEPT !.pc = "closed", !.buffer = <<>>]
  /\ UNCHANGED <<now, nFrames, chat, replay, detached, ctxVars, wire, serviceVars>>

\* the component is unmounted: the cleanup of the timer effect clears the
\* interval; nothing cancels the reader or a pending capture timeout, whose
\* updaters still see the state of the last render; without such a timeout
\* nothing can read the state of the component any more
Unmounted(p) ==
  IF Len(p.timeouts) = 0 THEN [FreshPanel EXCEPT !.mounted = FALSE]
  ELSE [p EXCEPT !.mounted = FALSE, !.timerRef = FALSE]

\* ChatInterface.updateDeepDebugResults: attach the results to the first
\* DeepDebug message whose content includes the session id, and save
updateDeepDebugResults(c, sessionId, results) ==
  LET older == {i \in 1..Len(c.earlier) : c.earlier[i].sessionId = sessionId}
  IN IF older # {}
     THEN [c EXCEPT
             !.earlier[CHOOSE i \in older : \A j \in older : i <= j].deepDebugResults
                = results,
             !.resultsSaveRequested = TRUE]
     ELSE IF c.hasMessage /\ c.activeDeepDebugId = sessionId
     THEN [c EXCEPT !.deepDebugResults = results, !.resultsSaveRequested = TRUE]
     ELSE c

\* (variant) the listener does not compare the session id of the event
handleWorkflowComplete_AnySession(c, detail) ==
  LET c1 == [c EXCEPT !.isDeepDebugging = FALSE]
  IN IF detail.results # NoResults
     THEN updateDeepDebugResults(c1, c.activeDeepDebugId, detail.results)
     ELSE c1

\* ChatInterface.handleWorkflowComplete; an event without results carries
\* NoResults
handleWorkflowComplete(c, detail) ==
  IF detail.sessionId = c.activeDeepDebugId
  THEN LET c1 == [c EXCEPT !.isDeepDebugging = FALSE]
       IN IF detail.results # NoResults
          THEN updateDeepDebugResults(c1, c.activeDeepDebugId, detail.results)
          ELSE c1
  ELSE c

\* a capture timeout fires: read the latest steps, dispatch the event
CaptureFires ==
  /\ ~PanelBusy
  /\ Len(panel.timeouts) > 0
  /\ LET t == Head(panel.timeouts)
         detail == [sessionId |-> SessionId, status |-> t.status,
                    results |-> Snapshot(panel.steps, panel.fullCodeStep,
                                         panel.closureElapsed, t.status,
                                         t.error, Query)]
     IN chat' = handleWorkflowComplete(chat, detail)
  /\ panel' = IF panel.mounted THEN [panel EXCEPT !.timeouts = Tail(@)]
              ELSE Unmounted([panel EXCEPT !.timeouts = Tail(@)])
  /\ UNCHANGED <<now, nFrames, panelConsumer, completion, replay, detached, ctxVars, wire, serviceVars>>

\* the history is shown again after the run: a new panel is mounted from the
\* saved results
MountFromSavedResults ==
  /\ ~PanelBusy
  /\ panelConsumer.pc \in {"unstarted", "closed"}
  /\ Len(panel.timeouts) = 0
  /\ chat.deepDebugResults # NoResults
  /\ \E savedResults \in SavedVariants(chat.deepDebugResults) :
       replay' = MountedFromSnapshot(savedResults)
  /\ replay' # replay
  /\ UNCHANGED <<now, nFrames, panel, panelConsumer, completion, chat, detached,
                 ctxVars, wire, serviceVars>>

\* the sendDebugWorkflow call of an unmounted panel keeps its request and
\* its reader ("open") until the call returns ("closed"); its callbacks set
\* the state of a component that is gone
Detach(c) ==
  IF c.pc = "unstarted" THEN detached
  ELSE Append(detached, IF c.pc = "closed" THEN "closed" ELSE "open")

\* ChatInterface.sendMessage after await saveChatHistory: a chat without a
\* chat id in the URL is navigated to /chat/<id>, the chatId effect calls
\* loadChatDetail, and isLoading replaces the layouts by the loading text
SaveSettles ==
  /\ ~PanelBusy
  /\ chat.saving
  /\ ~chat.chatId
  /\ chat' = [chat EXCEPT !.saving = FALSE, !.chatId = TRUE, !.isLoading = TRUE]
  /\ panel' = Unmounted(panel)
  /\ detached' = Detach(panelConsumer)
  /\ panelConsumer' = IdlePanelConsumer
  /\ UNCHANGED <<now, nFrames, completion, replay, ctxVars, wire, serviceVars>>

\* ChatInterface.loadChatDetail after await getChatDetail: the history is
\* replaced by the saved messages and the layouts are mounted again; the
\* DeepDebug message gets a panel with savedResults if it has results and a
\* new panel otherwise. A failed load empties the history.
ChatDetailLoaded ==
  /\ ~PanelBusy
  /\ chat.isLoading
  /\ Len(panel.timeouts) = 0
  /\ \E ok \in BOOLEAN :
       IF ok
       THEN /\ chat' = [chat EXCEPT !.isLoading = FALSE, !.hasMessage = TRUE]
            /\ IF chat.deepDebugResults = NoResults
               THEN /\ panel' = FreshPanel
                    /\ replay' = replay
               ELSE /\ panel' = panel
                    /\ replay' = MountedFromSnapshot(chat.deepDebugResults)
       ELSE /\ chat' = [chat EXCEPT !.isLoading = FALSE, !.hasMessage = FALSE,
                                    !.chatId = FALSE, !.earlier = <<>>]
            /\ UNCHANGED <<panel, replay>>
  /\ UNCHANGED <<now, nFrames, panelConsumer, completion, detached, ctxVars, wire, serviceVars>>

\* ChatInterface.handleNewChat: the history is emptied, which unmounts the
\* panel, and the input is enabled again
handleNewChat ==
  /\ ~PanelBusy
  /\ ~chat.isLoading
  /\ chat.hasMessage
  /\ chat' = [chat EXCEPT !.hasMessage = FALSE, !.isDeepDebugging = FALSE,
                          !.chatId = FALSE, !.earlier = <<>>]
  /\ panel' = Unmounted(panel)
  /\ detached' = Detach(panelConsumer)
  /\ panelConsumer' = IdlePanelConsumer
  /\ UNCHANGED <<now, nFrames, completion, replay, ctxVars, wire, serviceVars>>

\* the stream of an unmounted panel goes on until the fetch fails or the
\* reader reports done, throws or is cancelled at a terminal frame. The
\* set-state calls of its callbacks reach no mounted component.
DetachedReaderCloses ==
  /\ \E i \in 1..Len(detached) :
       /\ detached[i] = "open"
       /\ detached' = [detached EXCEPT ![i] = "closed"]
  /\ UNCHANGED <<now, nFrames, panel, panelConsumer, completion, chat, replay,
                 ctxVars, wire, serviceVars>>

NextPanel ==
  \/ SaveSettles
  \/ ChatDetailLoaded
  \/ handleNewChat
  \/ DetachedReaderCloses
  \/ PanelTick
  \/ StartEffect
  \/ TimerEffect
  \/ TimerFires
  \/ PanelFetchSettles
  \/ PanelReadChunk
  \/ PanelDispatchLine
  \/ PanelReadDone
  \/ PanelReadThrows
  \/ CaptureFires
  \/ MountFromSavedResults

SpecPanel == InitPanel /\ [][NextPanel]_vars

\* the steps that need no user: effects, timers, the settled promises of
\* fetch, read and saveChatHistory, and the clock. The browser runs every
\* one of them once it is due.
PanelProgress ==
  \/ SaveSettles
  \/ ChatDetailLoaded
  \/ DetachedReaderCloses
  \/ PanelTick
  \/ StartEffect
  \/ TimerEffect
  \/ TimerFires
  \/ PanelFetchSettles
  \/ PanelReadChunk
  \/ PanelDispatchLine
  \/ PanelReadDone
  \/ PanelReadThrows
  \/ CaptureFires

SpecPanelFair == InitPanel /\ [][NextPanel]_vars /\ WF_vars(PanelProgress)

\* ===================================== the chat history and its events
\* The chat page alone: DeepDebug messages are sent one after the other and
\* every deepdebug-workflow-complete event that a panel of this page, of an
\* earlier page or of a torn-down stream may dispatch is drawn.

\* `deep-debug-${Date.now()}`
SessionIdAt(t) ==
  <<SessionId, "deepdebug-2", "deepdebug-3", "deepdebug-4", "deepdebug-5">>[t + 1]

\* the session id of an event that no message of the history carries
ForeignSessionId == "deepdebug-0"

\* the DeepDebug message of an earlier submission
EarlierMessage(c) ==
  [sessionId |-> c.activeDeepDebugId, deepDebugResults |-> c.deepDebugResults]

\* what the detail of an event may carry as results
EventResults ==
  {NoResults,
   Snapshot(<<>>, null, ElapsedString(0), "completed", undefined, Query),
   Snapshot(<<>>, null, ElapsedString(1), "completed", undefined, Query),
   Snapshot(<<>>, null, ElapsedString(0), "error", "x", Query)}

EventDetails ==
  [sessionId : {SessionIdAt(t) : t \in 0..(MaxSessions + 1)} \cup {ForeignSessionId},
   results : EventResults]

\* the window delivers a deepdebug-workflow-complete event to the listener
WorkflowCompleteEventAs(detail) ==
  /\ chat' = handleWorkflowComplete(chat, detail)
  /\ UNCHANGED <<now, nFrames, panel, panelConsumer, completion, replay,
                 detached, ctxVars, wire, serviceVars>>

WorkflowCompleteEvent == \E detail \in EventDetails : WorkflowCompleteEventAs(detail)

\* ChatInterface.sendMessage with deepDebugActive, called by handleSubmit
\* while nothing is loading: the lock is set, the session id is made of the
\* time and the DeepDebug message is appended to the history and saved. The
\* lock of the run before was released by an event that its panel
\* dispatched 100 ms after the terminal callback, so the time has moved on.
sendDeepDebugMessage ==
  /\ ~chat.isDeepDebugging
  /\ ~chat.isLoading
  /\ SessionIdAt(now) # chat.activeDeepDebugId
  /\ chat' = [chat EXCEPT
       !.earlier = IF chat.hasMessage THEN Append(@, EarlierMessage(chat)) ELSE @,
       !.activeDeepDebugId = SessionIdAt(now),
       !.isDeepDebugging = TRUE,
       !.deepDebugResults = NoResults,
       !.hasMessage = TRUE,
       !.saving = TRUE,
       !.resultsSaveRequested = FALSE]
  /\ UNCHANGED <<now, nFrames, panel, panelConsumer, completion, replay,
                 detached, ctxVars, wire, serviceVars>>

\* time passes on the chat page
HistoryTick ==
  /\ now < MaxSessions + 1
  /\ now' = now + 1
  /\ UNCHANGED <<nFrames, panelVars, ctxVars, wire, serviceVars>>

NextHistory ==
  \/ WorkflowCompleteEvent
  \/ sendDeepDebugMessage
  \/ HistoryTick

SpecHistory == InitPanel /\ [][NextHistory]_vars

\* ===================================== a regular chat reply
\* ChatInterface.sendMessage without DeepDebug and chatService.sendChatMessage.
\* The frames of the reply are told apart by what the loop does with them;
\* a chunk is followed by the frames it completes.

\* the chat page after construction: no message, no panel, nothing locked
InitPage ==
  /\ workflowSteps = <<>>
  /\ workflowStatus = InitialWorkflowStatus
  /\ eventStepMapRef = EmptyMap
  /\ now = 0
  /\ consumers = [s \in Sessions |-> IdleConsumer]
  /\ nSessions = 0
  /\ nFrames = 0
  /\ wire = NoWire
  /\ reply = NoReply
  /\ pyodideService = NewPyodideService
  /\ panel = Unmounted(FreshPanel)
  /\ panelConsumer = IdlePanelConsumer
  /\ completion = View(FreshPanel)
  /\ chat = [activeDeepDebugId |-> "", isDeepDebugging |-> FALSE,
             deepDebugResults |-> NoResults, saving |-> FALSE,
             chatId |-> FALSE, isLoading |-> FALSE, hasMessage |-> FALSE,
             earlier |-> <<>>, resultsSaveRequested |-> FALSE]
  /\ replay = NoPanel
  /\ detached = <<>>

\* "done": data: [DONE]; "error": JSON with a truthy error; "content" and
\* "delta": JSON with a truthy content or delta; "other": any other line
\* (not a data line, not JSON, JSON without these fields)
ReplyFrameKinds == {"done", "error", "content", "delta", "other"}

ReplyChunks(budget) ==
  UNION {[1..n -> ReplyFrameKinds] : n \in 1..Min(2, budget)}

\* sendMessage's onMessage callback
replyOnMessage(r) ==
  [r EXCEPT !.botResponseStatus = "streaming",
            !.nMessage = @ + 1,
            !.messageAfterTerminal = @ \/ r.nFinish + r.nError > 0]

\* sendMessage's onError callback
replyOnError(r) ==
  [r EXCEPT !.botResponseStatus = "complete", !.nError = @ + 1]

\* sendMessage's onFinish callback
replyOnFinish(r) ==
  [r EXCEPT !.botResponseStatus = "complete", !.nFinish = @ + 1]

\* ChatInterface.isLoadingResponse
isLoadingResponse ==
  reply.botResponseStatus \in {"loading", "streaming"} \/ chat.isDeepDebugging

\* handleSubmit and sendMessage up to the fetch of sendChatMessage
sendChatReply ==
  /\ ~isLoadingResponse
  /\ reply.pc \in {"idle", "closed"}
  /\ reply.calls < MaxReplies
  /\ reply' = [NoReply EXCEPT !.pc = "fetch", !.botResponseStatus = "loading",
                              !.calls = reply.calls + 1]
  /\ UNCHANGED <<now, nFrames, panelVars, ctxVars, wire, pyodideService>>

\* the fetch settles: ok with a reader, ok without one, !response.ok with
\* a JSON body or with a body that response.json() rejects, throw
ReplyFetchSettles ==
  /\ reply.pc = "fetch"
  /\ \E outcome \in {"ok", "no_reader", "not_ok", "not_ok_no_json", "throws"} :
       reply' = IF outcome = "ok" THEN [reply EXCEPT !.pc = "read"]
                ELSE IF outcome = "no_reader" THEN [reply EXCEPT !.pc = "closed"]
                ELSE [replyOnError(reply) EXCEPT !.pc = "closed"]
  /\ UNCHANGED <<now, nFrames, panelVars, ctxVars, wire, pyodideService>>

\* reader.read() delivers a chunk that completes one or two frames
ReplyReadChunk ==
  /\ reply.pc = "read"
  /\ ~reply.cancelled
  /\ \E lines \in ReplyChunks(MaxReplyFrames - reply.frames) :
       reply' = [reply EXCEPT !.pc = "lines", !.lines = lines,
                              !.frames = @ + Len(lines)]
  /\ UNCHANGED <<now, nFrames, panelVars, ctxVars, wire, pyodideService>>

\* one iteration of for (const line of lines); a terminal frame calls
\* reader.cancel() and leaves the for loop, the while loop reads again
ReplyDispatchLine ==
  /\ reply.pc = "lines"
  /\ LET kind == Head(reply.lines)
         rest == Tail(reply.lines)
         r == IF kind = "done" THEN replyOnFinish(reply)
              ELSE IF kind = "error" THEN replyOnError(reply)
              ELSE IF kind \in {"content", "delta"} THEN replyOnMessage(reply)
              ELSE reply
     IN reply' = IF kind \in {"done", "error"}
                 THEN [r EXCEPT !.lines = <<>>, !.cancelled = TRUE, !.pc = "read"]
                 ELSE [r EXCEPT !.lines = rest,
                                !.pc = IF Len(rest) = 0 THEN "read" ELSE "lines"]
  /\ UNCHANGED <<now, nFrames, panelVars, ctxVars, wire, pyodideService>>

\* reader.read() reports done: the loop is left and the call returns
ReplyReadDone ==
  /\ reply.pc = "read"
  /\ reply' = [reply EXCEPT !.pc = "closed"]
  /\ UNCHANGED <<now, nFrames, panelVars, ctxVars, wire, pyodideService>>

\* reader.read() rejects: the catch calls onError
ReplyReadThrows ==
  /\ reply.pc = "read"
  /\ ~reply.cancelled
  /\ reply' = [replyOnError(reply) EXCEPT !.pc = "closed"]
  /\ UNCHANGED <<now, nFrames, panelVars, ctxVars, wire, pyodideService>>

\* the steps that need no user: the promises of fetch and read settle and
\* the loop goes on
ReplyProgress ==
  \/ ReplyFetchSettles
  \/ ReplyReadChunk
  \/ ReplyDispatchLine
  \/ ReplyReadDone
  \/ ReplyReadThrows

NextReply ==
  \/ sendChatReply
  \/ ReplyProgress

SpecReply == InitPage /\ [][NextReply]_vars /\ WF_vars(ReplyProgress)

\* ===================================== the Pyodide runtime
\* PyodideService.initPyodide, called by several components. A call runs
\* from one await to the next without interruption.
\* pc of a call: "idle" | "script" (awaiting loadPyodideScript) | "loading"
\* (awaiting its own loadingPromise) | "shared" (it returned the
\* loadingPromise of another call) | "returned" | "failed"

\* this.loadingPromise = window.loadPyodide({...}), up to the await
callLoadPyodide(svc, c) ==
  [svc EXCEPT !.promises = Append(@, "pending"),
              !.loadingPromise = Len(svc.promises) + 1,
              !.calls[c].pc = "loading",
              !.calls[c].promise = Len(svc.promises) + 1]

\* initPyodide from its entry to its first await or return
initPyodide(c) ==
  /\ pyodideService.calls[c].pc = "idle"
  /\ pyodideService' =
       IF pyodideService.pyodide # 0
       THEN [pyodideService EXCEPT !.calls[c].pc = "returned",
                                   !.calls[c].result = pyodideService.pyodide]
       ELSE IF pyodideService.isLoading /\ pyodideService.loadingPromise # 0
       THEN [pyodideService EXCEPT
               !.calls[c].pc = "shared",
               !.calls[c].promise = pyodideService.loadingPromise]
       ELSE IF ~pyodideService.loadPyodide
       THEN \* loadPyodideScript appends a script element
            [pyodideService EXCEPT !.isLoading = TRUE,
                                   !.scripts = @ + 1,
                                   !.calls[c].pc = "script"]
       ELSE callLoadPyodide([pyodideService EXCEPT !.isLoading = TRUE], c)
  /\ UNCHANGED <<now, nFrames, panelVars, ctxVars, wire, reply>>

\* the script of a call is loaded (it defines window.loadPyodide) or fails
\* (the call throws and finally clears isLoading)
ScriptSettles(c) ==
  /\ pyodideService.calls[c].pc = "script"
  /\ \E onload \in BOOLEAN :
       pyodideService' =
         IF onload
         THEN callLoadPyodide([pyodideService EXCEPT !.loadPyodide = TRUE], c)
         ELSE [pyodideService EXCEPT !.isLoading = FALSE,
                                     !.calls[c].pc = "failed"]
  /\ UNCHANGED <<now, nFrames, panelVars, ctxVars, wire, reply>>

\* the promise of window.loadPyodide settles and the call that made it goes
\* on: this.pyodide = await this.loadingPromise, finally isLoading = false
LoadSettles(c) ==
  /\ pyodideService.calls[c].pc = "loading"
  /\ LET p == pyodideService.calls[c].promise
     IN \E resolved \in BOOLEAN :
          pyodideService' =
            IF resolved
            THEN [pyodideService EXCEPT !.promises[p] = "resolved",
                                        !.pyodide = p,
                                        !.isLoading = FALSE,
                                        !.calls[c].pc = "returned",
                                        !.calls[c].result = p]
            ELSE [pyodideService EXCEPT !.promises[p] = "rejected",
                                        !.isLoading = FALSE,
                                        !.calls[c].pc = "failed"]
  /\ UNCHANGED <<now, nFrames, panelVars, ctxVars, wire, reply>>

\* a caller that was handed the loadingPromise of another call gets what
\* this promise settled with
SharedSettles(c) ==
  /\ pyodideService.calls[c].pc = "shared"
  /\ LET p == pyodideService.calls[c].promise
     IN /\ pyodideService.promises[p] # "pending"
        /\ pyodideService' =
             IF pyodideService.promises[p] = "resolved"
             THEN [pyodideService EXCEPT !.calls[c].pc = "returned",
                                         !.calls[c].result = p]
             ELSE [pyodideService EXCEPT !.calls[c].pc = "failed"]
  /\ UNCHANGED <<now, nFrames, panelVars, ctxVars, wire, reply>>

NextPyodide ==
  \E c \in Callers :
    \/ initPyodide(c)
    \/ ScriptSettles(c)
    \/ LoadSettles(c)
    \/ SharedSettles(c)

SpecPyodide == InitPage /\ [][NextPyodide]_vars

\* ===================================== one scripted run in both schemas
\* A scripted run is a sequence of items: a step event with its payload, the
\* end of the run, or its failure.  debugService.sendDebugWorkflow reads it
\* as {event, content} frames into the Workflow Store of DeepDebugContext,
\* chatService.sendDebugWorkflow reads it as {event_name, status, content}
\* frames into the state of DeepDebugPanel.
EvFullCode == <<"F","u","l","l"," ","C","o","d","e">>

\* the event names of the script, as characters and as the string of a frame
ScriptNames ==
  << [event |-> EvAnalyzing1, event_name |-> "analyzing_problem_1"],
     [event |-> EvAnalyzing2, event_name |-> "analyzing_problem_2"],
     [event |-> EvStepA, event_name |-> "step_a"],
     [event |-> EvFullCode, event_name |-> FullCodeMarker] >>

ScriptItems ==
  [kind : {"step"}, name : 1..Len(ScriptNames), content : {"x", "code"}]
    \cup [kind : {"done"}, name : {1}, content : {undefined}]
    \cup [kind : {"error"}, name : {1}, content : {"boom"}]

\* the status field a step frame of the second schema may carry
StepPhases == {undefined, "step_progress", "step_completed"}

\* an item as a frame of the {event, content} schema
AsEventFrame(item) ==
  IF item.kind = "step"
    THEN CtxFrame(ScriptNames[item.name].event, item.content)
  ELSE IF item.kind = "done" THEN CtxFrame(EvDone, undefined)
  ELSE CtxFrame(EvError, item.content)

\* an item as a frame of the {event_name, status, content} schema
AsEventNameFrame(item, phase) ==
  IF item.kind = "step"
    THEN PanelFrame(ScriptNames[item.name].event_name, phase, item.content)
  ELSE IF item.kind = "done" THEN PanelFrame("workflow", "done", undefined)
  ELSE [PanelFrame(undefined, undefined, undefined) EXCEPT !.error = item.content]

\* both consumers are started on the run
ScriptStarts ==
  /\ consumers[1].pc = "unused"
  /\ panelConsumer.pc = "unstarted"
  /\ SetStore(ctxOnStatusUpdate(resetWorkflow(Store),
                [status |-> "running", progress |-> 0,
                 elapsedTime |-> 0, sourceCount |-> 0]))
  /\ consumers' = [consumers EXCEPT ![1].pc = "read"]
  /\ nSessions' = 1
  /\ panel' = startDebugWorkflow(panel)
  /\ panelConsumer' = [panelConsumer EXCEPT !.pc = "read"]
  /\ UNCHANGED <<now, nFrames, completion, chat, replay, detached, wire, serviceVars>>

\* both consumers parse the frame of the next item; after the end or the
\* failure of the run the server closes both streams
ScriptFeeds ==
  /\ consumers[1].pc = "read"
  /\ panelConsumer.pc = "read"
  /\ nFrames < MaxPanelFrames
  /\ \E item \in ScriptItems : \E phase \in StepPhases :
       LET r == ApplyFramePanel(panel, AsEventNameFrame(item, phase))
           ended == item.kind # "step"
       IN /\ SetStore(ApplyFrameCtx(Store, consumers[1].closureLen,
                                    AsEventFrame(item), now))
          /\ consumers' = [consumers EXCEPT ![1] =
                IF ended THEN ClosedConsumer([@ EXCEPT !.stopped = TRUE]) ELSE @]
          /\ panel' = r.p
          /\ Observe(r.p)
          /\ panelConsumer' = [panelConsumer EXCEPT
                !.pc = IF ended THEN "closed" ELSE "read",
                !.stopped = r.stop]
  /\ nFrames' = nFrames + 1
  /\ UNCHANGED <<now, nSessions, chat, replay, detached, wire, serviceVars>>

NextSchemas ==
  \/ ScriptStarts
  \/ ScriptFeeds

SpecSchemas == InitCtx /\ [][NextSchemas]_vars

\* ================================ one byte stream, cut in every possible way
\* The server sends a fixed sequence of frames (indices into FramesCtx:
\* analyzing_problem_1, step_a, done, error) and closes the stream after
\* the blank line of the last frame or right after its text; the transport
\* delivers the bytes in chunks of any size.
WireAlphabet == {1, 3, 4, 5}

Wires ==
  UNION {[frames : [1..n -> WireAlphabet],
          length : {Len(WireOf(n)), Len(WireOf(n)) - 2},
          sent : {0}] : n \in 1..MaxFrames}

BytesOf(w) == SubSeq(WireOf(Len(w.frames)), 1, w.length)

\* the frame of the stream whose text begins `behind` bytes before the last
\* byte that was delivered
FrameOnWire(behind) ==
  wire.frames[((wire.sent - behind) \div Len(FrameWire)) + 1]

\* the store right after sendMessage and a fetch that answered ok
StoreAtFirstRead(st) ==
  ctxOnStatusUpdate(resetWorkflow(st),
    [status |-> "running", progress |-> 0, elapsedTime |-> 0, sourceCount |-> 0])

\* sendMessage and the fetch, answered by a stream with fixed frames
WireStarts ==
  /\ nSessions = 0
  /\ \E w \in Wires : wire' = w
  /\ SetStore(StoreAtFirstRead(Store))
  /\ consumers' = [consumers EXCEPT ![1] = [IdleConsumer EXCEPT !.pc = "read"]]
  /\ nSessions' = 1
  /\ UNCHANGED <<now, nFrames, panelVars, serviceVars>>

\* reader.read() delivers the next bytes of the stream
ReadFromWire ==
  /\ ~CtxBusy
  /\ consumers[1].pc = "read"
  /\ \E k \in 1..Min(MaxChunkSyms, wire.length - wire.sent) :
       LET chunk == SubSeq(BytesOf(wire), wire.sent + 1, wire.sent + k)
           parts == SplitLines(consumers[1].buffer \o chunk)
       IN /\ consumers' = [consumers EXCEPT
                 ![1].lines = Front(parts),
                 ![1].buffer = Last(parts),
                 ![1].pc = IF Len(parts) > 1 THEN "lines" ELSE "read"]
          /\ nFrames' = nFrames + FramesBegun(chunk)
          /\ wire' = [wire EXCEPT !.sent = @ + k]
  /\ UNCHANGED <<workflowSteps, workflowStatus, eventStepMapRef, now, nSessions>>
  /\ UNCHANGED <<panelVars, serviceVars>>

\* one iteration of for (const line of lines): the line is the frame that
\* the stream holds at its place
DispatchFromWire ==
  /\ consumers[1].pc = "lines"
  /\ DispatchLineAs(1, FrameOnWire(Len(consumers[1].buffer)
                          + Len(FrameWire) * Len(consumers[1].lines)))

\* reader.read() reports done once every byte was delivered
WireEnds ==
  /\ wire.sent = wire.length
  /\ ReadDone(1)

\* after the loop: the rest of the buffer, parsed if it is a whole frame
DrainFromWire ==
  /\ consumers[1].pc = "drain"
  /\ \E f \in {0} \cup (IF Len(consumers[1].buffer) > 0
                         THEN {FrameOnWire(Len(consumers[1].buffer))} ELSE {}) :
       DrainBufferAs(1, f)

NextChunkings ==
  \/ WireStarts
  \/ ReadFromWire
  \/ DispatchFromWire
  \/ WireEnds
  \/ DrainFromWire

SpecChunkings == InitCtx /\ [][NextChunkings]_vars

\* the lines of the for loop, one after the other, up to the frame at which
\* the loop is left
RECURSIVE AfterLines(_, _)
AfterLines(st, frames) ==
  IF Len(frames) = 0 THEN st
  ELSE LET data == FramesCtx[Head(frames)]
           st1 == ApplyFrameCtx(st, 0, data, now)
       IN IF IsTerminalCtx(data) THEN st1 ELSE AfterLines(st1, Tail(frames))

\* the store after the run in which the first read delivers every byte of
\* the stream w
OneChunkRun(w) ==
  LET parts == SplitLines(BytesOf(w))
      lines == Front(parts)
      buffer == Last(parts)
      st1 == AfterLines(StoreAtFirstRead(Store), SubSeq(w.frames, 1, Len(lines)))
  IN IF Len(Trim(buffer)) > 0 /\ IsWholeFrame(buffer)
     THEN ApplyFrameCtx(st1, 0, FramesCtx[w.frames[Len(w.frames)]], now)
     ELSE st1

\* ================================================================ claims
IsPrefix(a, b) == Len(a) <= Len(b) /\ SubSeq(b, 1, Len(a)) = a
Ids(steps) == [i \in 1..Len(steps) |-> steps[i].id]
KeyAnalyzing == normalizeEventName(EvAnalyzing1)
EventSteps(key) ==
  {i \in 1..Len(workflowSteps) :
     workflowSteps[i].id.kind = "event" /\ workflowSteps[i].id.key = key}

\* C1 (P1, idempotent step identity): at every moment each canonical key of
\* the registry has exactly one step in the list, the one whose id the
\* registry holds, and the id registered for a key never changes while the
\* key stays registered.
C1_IdempotentStepIdentity ==
  /\ [](\A key \in DOMAIN eventStepMapRef :
          /\ Cardinality(EventSteps(key)) = 1
          /\ \A i \in EventSteps(key) : workflowSteps[i].id = eventStepMapRef[key])
  /\ [][\A key \in DOMAIN eventStepMapRef :
          key \in DOMAIN eventStepMapRef'
            => eventStepMapRef'[key] = eventStepMapRef[key]]_vars

\* C1 witness: two frames of the same key (the second one being
\* analyzing_problem_2) arrived at different times and left one step
C1_Witness ==
  /\ Cardinality(EventSteps(KeyAnalyzing)) = 1
  /\ \E i \in EventSteps(KeyAnalyzing) :
       /\ workflowSteps[i].title = formatEventName(EvAnalyzing2)
       /\ workflowSteps[i].id.t < workflowSteps[i].timestamp

\* C2 (P4, terminal idempotence): after a consumer has parsed a done or an
\* error frame, what it still holds of the stream (here the unterminated
\* rest of its buffer) changes neither the Run Status nor any step.
C2_TerminalIdempotence ==
  [][\A s \in Sessions :
       (consumers[s].stopped /\ consumers[s].pc = "drain")
         => (workflowSteps' = workflowSteps /\ workflowStatus' = workflowStatus)]_vars

\* C4 (P3, sequential closure): among the steps created from event names at
\* most one is in_progress.
C4_AtMostOneInProgress ==
  Cardinality({i \in 1..Len(workflowSteps) :
                 /\ workflowSteps[i].id.kind = "event"
                 /\ workflowSteps[i].status = "in_progress"}) <= 1

ErrorFrameIds == {f \in CtxFrameIds : FramesCtx[f].json /\ FramesCtx[f].event = EvError}

ErrorSurfaced(m) ==
  /\ workflowStatus'.status = "error"
  /\ workflowStatus'.error = m
  /\ workflowSteps' = workflowSteps

C8_TitleDerivedOnce ==
  /\ [](\A i \in EventSteps(KeyAnalyzing) :
          workflowSteps[i].title = formatEventName(KeyAnalyzing))
  /\ [][\A i \in 1..Len(workflowSteps) :
          (i <= Len(workflowSteps') /\ workflowSteps'[i].id = workflowSteps[i].id)
            => workflowSteps'[i].title = workflowSteps[i].title]_vars

\* C9 (P2, order preservation): within a session the ids of the list keep
\* their positions from one step of the program to the next, new ids being
\* appended at the end, and no id occurs twice.
C9_OrderPreserved ==
  /\ [](\A i, j \in 1..Len(workflowSteps) :
          workflowSteps[i].id = workflowSteps[j].id => i = j)
  /\ [][nSessions' = nSessions
          => IsPrefix(Ids(workflowSteps), Ids(workflowSteps'))]_vars

\* C9 witness: a step that has another step behind it was updated in place
\* later than it was created
C9_Witness ==
  \E i, j \in 1..Len(workflowSteps) :
    /\ i < j
    /\ workflowSteps[i].id.kind = "event"
    /\ workflowSteps[i].id.t < workflowSteps[i].timestamp

TerminalStatuses == {"completed", "error"}
PanelSteps ==
  IF panel.fullCodeStep = null THEN panel.steps
  ELSE Append(panel.steps, panel.fullCodeStep)

\* C3: the Run Status only moves idle -> running -> completed or error, and
\* a terminal status is never left.
C3_StatusMonotone ==
  [][\/ panel'.status.status = panel.status.status
     \/ (panel.status.status = "idle" /\ panel'.status.status = "running")
     \/ (panel.status.status = "running"
           /\ panel'.status.status \in TerminalStatuses)]_vars

\* C5: once every started run has ended (by a terminal frame, by the end
\* of the stream or by a transport failure) the Run Status is no longer
\* running: it is completed or error.
C5_EndedRunLeftRunning ==
  (nSessions > 0 /\ \A s \in 1..nSessions : consumers[s].pc = "closed")
    => workflowStatus.status \in TerminalStatuses

\* C6: while the Run Status is completed no step is in_progress.
C6_CompletedMeansNoStepInProgress ==
  panel.status.status = "completed"
    => \A i \in 1..Len(PanelSteps) : PanelSteps[i].status # "in_progress"

\* C10 (P5, snapshot round-trip): a panel mounted from the Snapshot of a
\* session that completed shows the step list, the full-code step and the
\* Run Status (status and error) that the live panel showed when the
\* completion callback ran.
C10_SnapshotRoundTrip ==
  (replay.mounted /\ replay.p.status.status = "completed")
    => View(replay.p) = completion

\* C10 witness: a replayed completed session with a step and a full-code step
C10_Witness ==
  /\ replay.mounted
  /\ replay.p.status.status = "completed"
  /\ Len(replay.p.steps) > 0
  /\ replay.p.fullCodeStep # null
  /\ View(replay.p) = View(panel)

Saved == chat.deepDebugResults

\* C11: the Snapshot handed over for persistence holds the latest state: its
\* elapsed-time string is the one the panel shows once the run has ended,
\* its query is the query of the panel, and the Snapshot of a completed run
\* has the step list, the full-code step and the Run Status of the panel.
C11_SnapshotHoldsLatestState ==
  Saved # NoResults =>
    /\ Saved.elapsedTime = panel.elapsedTimeString
    /\ Saved.query = Query
    /\ Saved.status = "completed" =>
         /\ Saved.steps = panel.steps
         /\ Saved.fullCodeStep = panel.fullCodeStep
         /\ panel.status = [status |-> Saved.status, error |-> Saved.error]

\* the step names of FramesPanel in lower case (only the two spellings of
\* the full-code marker contain upper-case letters or differ by case)
LowerName(name) == IF name \in {"Full Code", "full code"} THEN "full code" ELSE name

\* C12: no step of the ordered list carries a name that equals the
\* full-code marker when the case of the letters is ignored.
C12_FullCodeOnlyInSlot ==
  \A i \in 1..Len(panel.steps) :
    LowerName(panel.steps[i].id) # LowerName(FullCodeMarker)

\* C13: after the panel of a run is torn down (new chat, navigation, reload
\* of the chat) the reader of its stream is closed, so that no frame of the
\* cancelled stream is dispatched and no completion event is emitted for it:
\* no torn-down stream has a request or a reader that is still open.
C13_TornDownStreamIsClosed ==
  \A i \in 1..Len(detached) : detached[i] = "closed"

\* sendDebugWorkflow calls made so far for the session of the chat
Requests == Len(detached) + (IF panelConsumer.pc = "unstarted" THEN 0 ELSE 1)

\* C14: the workflow request of a session is started at most once, also when
\* the chat is saved, the URL is replaced, the chat detail is loaded again or
\* the panel is mounted again while the run is in flight.
C14_AtMostOneRequestPerSession == Requests <= 1

\* the Stream Consumers that have been started and have not returned
LiveConsumers ==
  {s \in Sessions : consumers[s].pc \in {"fetch", "read", "lines", "drain"}}

\* C15: two Stream Consumers never run against the same Workflow Store: a
\* second DeepDebug submission cannot start, and reset the store and the
\* registry, while the stream of an earlier one is still being read.
C15_OneConsumerPerStore == Cardinality(LiveConsumers) <= 1

MalformedFrameIds == {f \in CtxFrameIds : ~FramesCtx[f].json}

\* C16: a frame whose JSON does not parse is skipped and the stream goes on:
\* dispatching it changes neither the step list, the registry nor the Run
\* Status, and the consumer goes on to the next line or the next read, so
\* that the store ends as if the malformed frames had not been sent.
C16_MalformedFrameSkipped ==
  [][\A s \in Sessions : \A f \in MalformedFrameIds :
       /\ DispatchLineAs(s, f) =>
            /\ UNCHANGED <<workflowSteps, workflowStatus, eventStepMapRef>>
            /\ consumers'[s].pc \in {"lines", "read"}
            /\ consumers'[s].lines = Tail(consumers[s].lines)
            /\ ~consumers'[s].stopped
       /\ DrainBufferAs(s, f) =>
            UNCHANGED <<workflowSteps, workflowStatus, eventStepMapRef>>]_vars

\* C16 witness: the only consumer has dispatched every frame the server
\* began to send, no step and no status came of them (every frame that
\* parses leaves one or ends the run), and it is reading on
C16_Witness ==
  /\ nSessions = 1
  /\ nFrames >= 1
  /\ consumers[1].pc = "read"
  /\ consumers[1].buffer = <<>>
  /\ workflowSteps = <<>>
  /\ workflowStatus.status = "running"
  /\ workflowStatus.progress = 0

EventFrameIds ==
  {f \in CtxFrameIds : /\ FramesCtx[f].json
                       /\ FramesCtx[f].event \notin {NoEvent, EvDone, EvError}}

\* the canonical key of the event name of a frame
KeyOfFrame == [f \in EventFrameIds |-> normalizeEventName(FramesCtx[f].event)]

ContentsOf(steps, id) ==
  {steps[i].content : i \in {j \in 1..Len(steps) : steps[j].id = id}}

\* C20: frames are applied in the order they are parsed and the content of a
\* step is the payload of the last frame parsed for its canonical key:
\* a frame replaces the content of the step of its key by its own payload
\* (nothing is appended to what was there) and leaves the content of the
\* steps of all other keys as it was.
C20_ContentLastWriteWins ==
  [][\A s \in Sessions :
       consumers[s].pc \in {"lines", "drain"} =>
         \A f \in EventFrameIds :
           (DispatchLineAs(s, f) \/ DrainBufferAs(s, f)) =>
             /\ KeyOfFrame[f] \in DOMAIN eventStepMapRef'
             /\ ContentsOf(workflowSteps', eventStepMapRef'[KeyOfFrame[f]])
                  = {OrElse(FramesCtx[f].content, "")}
             /\ \A i \in 1..Len(workflowSteps') :
                  (/\ workflowSteps'[i].id.kind = "event"
                   /\ workflowSteps'[i].id # eventStepMapRef'[KeyOfFrame[f]])
                    => ContentsOf(workflowSteps, workflowSteps'[i].id)
                         = {workflowSteps'[i].content}]_vars

\* C20 witness: the step of analyzing_problem was created at one time and
\* holds the payload of a frame of its key that was parsed later
C20_Witness ==
  \E i \in EventSteps(KeyAnalyzing) :
    /\ workflowSteps[i].content = FramesCtx[2].content
    /\ workflowSteps[i].id.t < workflowSteps[i].timestamp

\* C17: a panel mounted from saved results only replays them: whatever Run
\* Status the results carry (idle and running included) its effects start
\* no request and no timer, its Run Status is the one of the results, and no
\* panel is at once marked as loaded from results and running a stream.
C17_SnapshotPanelIsReadOnly ==
  /\ replay.mounted =>
       /\ ~replay.requested
       /\ ~replay.p.timerRef
       /\ replay.p.startTime = FreshPanel.startTime
       /\ replay.p.status = [status |-> replay.savedResults.status,
                             error |-> replay.savedResults.error]
       /\ replay.p.steps = replay.savedResults.steps
  /\ panelConsumer.pc # "unstarted" => ~panel.resultsLoadedRef

\* C17 witness: a panel mounted from results that hold a step and say idle
C17_Witness ==
  /\ replay.mounted
  /\ replay.savedResults.status = "idle"
  /\ Len(replay.savedResults.steps) > 0

\* C18: the elapsed-time interval exists only while the run is running: it is
\* cleared when the run completes or fails and when the panel is unmounted,
\* and once the run has ended the elapsed time shown no longer changes.
C18_TickerOnlyWhileRunning ==
  /\ [](panel.timerRef => (panel.mounted /\ panel.status.status = "running"))
  /\ [][(/\ panel.mounted /\ panel'.mounted
          /\ panel.status.status \in TerminalStatuses
          /\ panel'.status.status \in TerminalStatuses)
          => panel'.elapsedTimeString = panel.elapsedTimeString]_vars

\* C18 witness: the interval has ticked, then the run completed and the
\* interval is gone
C18_Witness ==
  /\ panel.mounted
  /\ panel.status.status = "completed"
  /\ panel.elapsedTimeString = ElapsedString(1)
  /\ ~panel.timerRef

\* the characters of an event name of the script given as a string
CharsOfName(name) ==
  (CHOOSE n \in {ScriptNames[i] : i \in 1..Len(ScriptNames)} :
     n.event_name = name).event

\* the step list of the Workflow Store and of the panel: key, content, status
StoreStepView ==
  [i \in 1..Len(workflowSteps) |->
     [key |-> workflowSteps[i].id.key, content |-> workflowSteps[i].content,
      status |-> workflowSteps[i].status]]
PanelStepView ==
  [i \in 1..Len(panel.steps) |->
     [key |-> CharsOfName(panel.steps[i].id), content |-> panel.steps[i].content,
      status |-> panel.steps[i].status]]

\* C19: a scripted run gives the same result whether it is read as {event,
\* content} frames or as {event_name, status, content} frames: once the run
\* has ended the step lists agree in keys, content and status, the
\* full-code slot is the same, and the Run Status is the same.
C19_SchemasAgree ==
  (consumers[1].pc = "closed" /\ panelConsumer.pc = "closed") =>
    /\ StoreStepView = PanelStepView
    /\ panel.fullCodeStep = null
    /\ workflowStatus.status = panel.status.status

\* the steps a caller may hand to updateWorkflowStep for a given list: for
\* every id of the list and for one id the list does not hold, a whole step
\* and a step object that gives only some fields
UnknownStepId == ServerStepId("unknown")
UpsertArguments(steps) ==
  LET ids == {steps[i].id : i \in 1..Len(steps)} \cup {UnknownStepId}
  IN {[id |-> id, title |-> DefaultStepTitle, content |-> "z",
       status |-> "pending", timestamp |-> now] : id \in ids}
     \cup {[id |-> id, content |-> "z"] : id \in ids}

\* the entry of an existing step after the given fields were merged into it
Merged(entry, step) ==
  [k \in DOMAIN entry \cup DOMAIN step |->
     IF k \in DOMAIN step THEN step[k] ELSE entry[k]]

UpsertsInto(steps, step, r) ==
  LET at == {i \in 1..Len(steps) : steps[i].id = step.id}
  IN IF at # {}
     THEN /\ Len(r) = Len(steps)
          /\ \A i \in 1..Len(steps) :
               r[i] = IF i \in at THEN Merged(steps[i], step) ELSE steps[i]
     ELSE /\ Len(r) = Len(steps) + 1
          /\ r[Len(r)] = step
          /\ \A i \in 1..Len(steps) : r[i] = steps[i]

\* the same for DeepDebugPanel.updateOrAddStep, whose arguments are an id, a
\* content and a status (the reserved full-code name has its own slot)
PanelUpsertIds == {panel.steps[i].id : i \in 1..Len(panel.steps)} \cup {"unknown"}
PanelUpsertsInto(steps, id, r) ==
  LET at == {i \in 1..Len(steps) : steps[i].id = id}
  IN IF at # {}
     THEN /\ Len(r) = Len(steps)
          /\ \A i \in 1..Len(steps) :
               r[i] = IF i \in at
                      THEN [steps[i] EXCEPT !.content = "z", !.status = "pending"]
                      ELSE steps[i]
     ELSE /\ Len(r) = Len(steps) + 1
          /\ r[Len(r)] = PanelStep(id, id, "z", "pending")
          /\ \A i \in 1..Len(steps) : r[i] = steps[i]

\* C21: whatever the step list has become, upserting a step whose id is in
\* the list merges the given fields into that entry at its index and keeps
\* the length, upserting a step with an unknown id appends it and leaves
\* every entry as it was, and upserting the same step again changes nothing;
\* both for updateWorkflowStep and for updateOrAddStep.
C21_UpsertIsCreateOnWrite ==
  /\ \A step \in UpsertArguments(workflowSteps) :
       LET r == updateWorkflowStep(workflowSteps, step)
       IN /\ UpsertsInto(workflowSteps, step, r)
          /\ updateWorkflowStep(r, step) = r
  /\ \A id \in PanelUpsertIds :
       LET r == updateOrAddStep(panel, id, "z", "pending")
       IN /\ PanelUpsertsInto(panel.steps, id, r.steps)
          /\ updateOrAddStep(r, id, "z", "pending") = r
          /\ r.fullCodeStep = panel.fullCodeStep

\* C21 witness: both lists hold two steps, the first of which was updated in
\* place by a later frame while the second stood behind it
C21_Witness ==
  /\ Len(workflowSteps) = 2
  /\ workflowSteps[1].id.key = normalizeEventName(EvStepA)
  /\ workflowSteps[1].content = "code"
  /\ Len(panel.steps) = 2
  /\ panel.steps[1].id = "step_a"
  /\ panel.steps[1].content = "code"

\* the frames whose event name is the name of a step and nothing else
StepFrameIds ==
  {f \in EventFrameIds : FramesCtx[f].event \notin {EvStepUpdate, EvStatusUpdate}}

\* entry i of the list keeps its id, title and content, and gets the status st
KeepsButStatus(i, st) ==
  /\ i <= Len(workflowSteps')
  /\ workflowSteps'[i] = [workflowSteps[i] EXCEPT !.status = st]

\* C22: when the frame of a step is parsed whose canonical key is not in the
\* registry, every step of the list that is in_progress becomes completed
\* and every other step stays exactly as it was (ids, titles and contents
\* stay in any case); when the key is in the registry, all steps but the
\* one of the key stay exactly as they were.
C22_CloseOutOnlyInProgress ==
  [][\A s \in Sessions :
       consumers[s].pc \in {"lines", "drain"} =>
         \A f \in StepFrameIds :
           (DispatchLineAs(s, f) \/ DrainBufferAs(s, f)) =>
             \A i \in 1..Len(workflowSteps) :
               IF ~IsMapped(eventStepMapRef, KeyOfFrame[f])
               THEN KeepsButStatus(i, IF workflowSteps[i].status = "in_progress"
                                      THEN "completed"
                                      ELSE workflowSteps[i].status)
               ELSE workflowSteps[i].id # eventStepMapRef[KeyOfFrame[f]]
                      => KeepsButStatus(i, workflowSteps[i].status)]_vars

\* C23: the Run Status carries an error message only while its status is
\* error, in the Workflow Store of DeepDebugContext and in DeepDebugPanel.
C23_ErrorOnlyWithStatusError ==
  /\ workflowStatus.error # undefined => workflowStatus.status = "error"
  /\ panel.status.error # undefined => panel.status.status = "error"

\* the steps of the list that were made from events of the given key
StepsOfKey(steps, key) ==
  {i \in 1..Len(steps) : steps[i].id.kind = "event" /\ steps[i].id.key = key}

\* C24: a submission leaves the step list and the registry empty and the
\* Run Status at {running, progress 0, elapsedTime 0} without an error; and
\* the first frame of a session for a canonical key, whether or not an
\* earlier session saw the key, appends a step whose id is made at that
\* moment and leaves the steps the list holds in their places.
C24_SessionStartsFromScratch ==
  /\ [][nSessions' # nSessions =>
          /\ workflowSteps' = <<>>
          /\ eventStepMapRef' = EmptyMap
          /\ workflowStatus'.status = "running"
          /\ workflowStatus'.progress = 0
          /\ workflowStatus'.elapsedTime = 0
          /\ workflowStatus'.error = undefined]_vars
  /\ [][\A s \in Sessions :
          consumers[s].pc \in {"lines", "drain"} =>
            \A f \in StepFrameIds :
              (/\ StepsOfKey(workflowSteps, KeyOfFrame[f]) = {}
               /\ (DispatchLineAs(s, f) \/ DrainBufferAs(s, f)))
                => /\ Len(workflowSteps') = Len(workflowSteps) + 1
                   /\ workflowSteps'[Len(workflowSteps')].id
                        = EventStepId(now, KeyOfFrame[f])
                   /\ Ids(workflowSteps) = SubSeq(Ids(workflowSteps'), 1,
                                                  Len(workflowSteps))]_vars

\* C24 witness: the second session, started after the first one had
\* returned and the clock had moved on, holds a step of analyzing_problem
\* that was made in it
C24_Witness ==
  /\ nSessions = 2
  /\ consumers[1].pc = "closed"
  /\ now > 0
  /\ \E i \in StepsOfKey(workflowSteps, KeyAnalyzing) :
       workflowSteps[i].id.t = now

\* C25: once the consumer of a byte stream has returned, the store is what
\* it is after the run in which the whole stream arrives in one chunk,
\* however the stream was cut into chunks.
C25_ChunkingIndependent ==
  (wire # NoWire /\ consumers[1].pc = "closed") => Store = OneChunkRun(wire)

\* C26: the ids of the step list are pairwise distinct, and the registry
\* maps no two canonical keys to the same step id.
C26_StepIdsUnique ==
  /\ \A i, j \in 1..Len(workflowSteps) :
       workflowSteps[i].id = workflowSteps[j].id => i = j
  /\ \A k1, k2 \in DOMAIN eventStepMapRef :
       eventStepMapRef[k1] = eventStepMapRef[k2] => k1 = k2

\* C26 witness: two steps of different keys were made at the same
\* Date.now(), next to a step whose id the server sent
C26_Witness ==
  /\ \E k1, k2 \in DOMAIN eventStepMapRef :
       /\ k1 # k2
       /\ eventStepMapRef[k1].t = eventStepMapRef[k2].t
  /\ \E i \in 1..Len(workflowSteps) : workflowSteps[i].id.kind = "server"

\* the DeepDebug messages of the history: the earlier ones, then the one of
\* the active session
HistoryMessages(c) ==
  c.earlier \o (IF c.hasMessage THEN <<EarlierMessage(c)>> ELSE <<>>)

\* C27: a deepdebug-workflow-complete event whose sessionId is not the
\* active session id changes nothing in the chat page (the lock stays, no
\* message changes, no save is requested); an event of the active session
\* releases the lock and changes at most the message that carries this
\* session id, which gets the results of the event
C27_OnlyTheActiveSessionCompletes ==
  [][\A detail \in EventDetails :
       WorkflowCompleteEventAs(detail) =>
         IF detail.sessionId # chat.activeDeepDebugId
         THEN chat' = chat
         ELSE /\ ~chat'.isDeepDebugging
              /\ Len(HistoryMessages(chat')) = Len(HistoryMessages(chat))
              /\ \A i \in 1..Len(HistoryMessages(chat)) :
                   LET before == HistoryMessages(chat)[i]
                       after == HistoryMessages(chat')[i]
                   IN /\ after.sessionId = before.sessionId
                      /\ after.deepDebugResults # before.deepDebugResults =>
                           /\ before.sessionId = detail.sessionId
                           /\ after.deepDebugResults = detail.results
              /\ chat'.resultsSaveRequested # chat.resultsSaveRequested =>
                   \E i \in 1..Len(HistoryMessages(chat)) :
                     HistoryMessages(chat)[i].sessionId = detail.sessionId]_vars

\* the event of the second run of a history released the lock and gave its
\* message results, and the message of the first run kept its own
C27_Witness ==
  /\ Len(chat.earlier) = 1
  /\ chat.earlier[1].deepDebugResults # NoResults
  /\ chat.deepDebugResults # NoResults
  /\ chat.earlier[1].deepDebugResults # chat.deepDebugResults
  /\ ~chat.isDeepDebugging
  /\ chat.resultsSaveRequested

\* C28: the input lock of a DeepDebug run is always released: once
\* isDeepDebugging is true it eventually becomes false, whatever way the
\* stream ends, as long as reads, timers and effects are delivered
C28_LockEventuallyReleased == chat.isDeepDebugging ~> ~chat.isDeepDebugging

\* C29: a sendChatMessage call invokes at most one of onFinish and onError,
\* at most once, delivers no onMessage after it, and eventually invokes
\* exactly one of them, so that botResponseStatus is 'complete' again after
\* every submission
C29_ExactlyOneTerminalCallback ==
  /\ [](reply.nFinish + reply.nError <= 1 /\ ~reply.messageAfterTerminal)
  /\ (reply.pc # "idle") ~>
       (reply.nFinish + reply.nError = 1 /\ reply.botResponseStatus = "complete")

\* C30: initPyodide loads the runtime at most once whatever way the calls
\* interleave: at most one script element is appended, window.loadPyodide
\* is called at most once, and all callers get the same instance
C30_RuntimeLoadedOnce ==
  /\ pyodideService.scripts <= 1
  /\ Len(pyodideService.promises) <= 1
  /\ \A c, d \in Callers :
       (pyodideService.calls[c].pc = "returned"
          /\ pyodideService.calls[d].pc = "returned")
       => pyodideService.calls[c].result = pyodideService.calls[d].result

====
